---------------------------- MODULE Spec2Model ----------------------------
(***************************************************************************)
(* Model of the sale-order report pipeline (sale_order.py) and of the web  *)
(* layer around it (app.py).                                               *)
(*                                                                         *)
(* Text is modelled as a sequence of one-character strings, so that the    *)
(* string operations of the code (upper, lower, strip, split, substring    *)
(* test, zfill, float parsing) are computed and not assumed.               *)
(***************************************************************************)
EXTENDS Integers, Sequences, FiniteSets, TLC

VARIABLES
    clock,        \* the system date read by datetime.now(): [y, m]
    counters,     \* table counters: month_year key -> counter (a row per key)
    sale_orders,  \* table sale_orders: sequence of records, in insertion order
    reports,      \* the set of workbook files saved in the report folder
    pc,           \* position of each request inside write_report
    loc,          \* the locals of each request
    returned,     \* history: the value returned by each completed call of
                  \* generate_unique_order_id, in completion order
    ncalls,       \* number of write_report calls started so far
    nc_in,        \* normalize_category: the arguments of the call
    nc_out,       \* normalize_category: the value returned
    sq_in,        \* calculate_sqft: the arguments of the call
    sq_out,       \* calculate_sqft: the value returned
    pd_in,        \* prepare_data: the tables read from the input document
    pd_out,       \* prepare_data: what the call produced
    wt_in,        \* get_weight_formula: the arguments of the call
    wt_out,       \* get_weight_formula: the value returned
    wr_in,        \* write_report: the document the rendered rows come from
    wr_out,       \* write_report: the rows of the rendered sheet
    sf_in,        \* get_sqft_formula: the row and its place in the sheet
    sf_out,       \* get_sqft_formula: the formula and the value it shows
    fo_in,        \* the counter value and the month an identifier is built of
    fo_out,       \* the identifier built
    ACTIVE_SESSIONS,   \* app.py: the usernames marked as logged in
    session,           \* app.py: each client's signed session cookie
    issued_order_ids,  \* app.py: the rows of the table issued_order_ids
    request,           \* app.py: each client's POST /issue-order-id under way
    served             \* app.py: what the routes have answered, as
                       \* [route, user, client, ...] records

seqVars == <<clock, counters, sale_orders, reports, pc, loc, returned, ncalls>>
normVars == <<nc_in, nc_out>>
sqftVars == <<sq_in, sq_out>>
prepVars == <<pd_in, pd_out>>
weightVars == <<wt_in, wt_out>>
sheetVars == <<wr_in, wr_out>>
fnVars == <<normVars, sqftVars, prepVars, weightVars, sheetVars>>
formulaVars == <<sf_in, sf_out>>
formatVars == <<fo_in, fo_out>>
webVars == <<ACTIVE_SESSIONS, session, issued_order_ids, request, served>>
appVars == <<formulaVars, formatVars, webVars>>
vars == <<seqVars, fnVars, appVars>>

-----------------------------------------------------------------------------
(* Bounds of the model *)

\* number of concurrent requests (each runs write_report on its own connection)
NumProcs == 2
\* number of write_report calls started in one behaviour
MaxCalls == 3
\* number of month changes in one behaviour
MaxTicks == 1
\* the year the behaviour starts in (it starts in December, so that the
\* month change is a year change too)
FirstYear == 2026

-----------------------------------------------------------------------------
(* Text helpers: the Python str operations the code uses *)

Lowers == <<"a","b","c","d","e","f","g","h","i","j","k","l","m",
            "n","o","p","q","r","s","t","u","v","w","x","y","z">>
Uppers == <<"A","B","C","D","E","F","G","H","I","J","K","L","M",
            "N","O","P","Q","R","S","T","U","V","W","X","Y","Z">>
DigitChars == <<"0","1","2","3","4","5","6","7","8","9">>

UpperChar(c) ==
    IF \E i \in 1..26 : Lowers[i] = c
    THEN Uppers[CHOOSE i \in 1..26 : Lowers[i] = c]
    ELSE c

LowerChar(c) ==
    IF \E i \in 1..26 : Uppers[i] = c
    THEN Lowers[CHOOSE i \in 1..26 : Uppers[i] = c]
    ELSE c

\* str.upper()
Upper(s) == [i \in 1..Len(s) |-> UpperChar(s[i])]

\* str.lower()
Lower(s) == [i \in 1..Len(s) |-> LowerChar(s[i])]

\* sub in s
Contains(sub, s) ==
    \E i \in 0..(Len(s) - Len(sub)) :
        \A j \in 1..Len(sub) : s[i + j] = sub[j]

\* str.strip(): leading and trailing blanks removed
RECURSIVE LStrip(_)
LStrip(s) ==
    IF s # <<>> /\ Head(s) = " " THEN LStrip(Tail(s)) ELSE s

RECURSIVE RStrip(_)
RStrip(s) ==
    IF s # <<>> /\ s[Len(s)] = " " THEN RStrip(SubSeq(s, 1, Len(s) - 1)) ELSE s

Strip(s) == RStrip(LStrip(s))

\* str.split(sep) / re.split of a one-character class: the pieces between
\* the separators, empty pieces kept
RECURSIVE SplitOn(_, _)
SplitOn(s, seps) ==
    IF \E i \in 1..Len(s) : s[i] \in seps
    THEN LET k == CHOOSE i \in 1..Len(s) :
                      s[i] \in seps /\ \A j \in 1..(i - 1) : s[j] \notin seps
         IN  <<SubSeq(s, 1, k - 1)>> \o SplitOn(SubSeq(s, k + 1, Len(s)), seps)
    ELSE <<s>>

\* str(n) of a natural number
RECURSIVE ToStr(_)
ToStr(n) ==
    IF n < 10 THEN <<DigitChars[n + 1]>>
    ELSE ToStr(n \div 10) \o <<DigitChars[(n % 10) + 1]>>

\* str.zfill(width): zeros on the left up to width, never a truncation
RECURSIVE Zfill(_, _)
Zfill(s, width) ==
    IF Len(s) >= width THEN s ELSE Zfill(<<"0">> \o s, width)

IsDigit(c) == \E i \in 1..10 : DigitChars[i] = c

DigitVal(c) == (CHOOSE i \in 1..10 : DigitChars[i] = c) - 1

\* int(s) of a run of decimal digits
RECURSIVE ToInt(_)
ToInt(s) ==
    IF s = <<>> THEN 0
    ELSE 10 * ToInt(SubSeq(s, 1, Len(s) - 1)) + DigitVal(s[Len(s)])

-----------------------------------------------------------------------------
(* The order-ID sequencer and the report writer's use of the store *)

Procs == 1..NumProcs

ERROR_ID == <<"E","R","R","O","R","-","I","D">>

\* datetime.now().strftime("%m-%y"): two digits of month, two of the year
MonthYear(t) ==
    Zfill(ToStr(t.m), 2) \o <<"-">> \o Zfill(ToStr(t.y % 100), 2)

\* f"{current_month_year}-{str(new_counter).zfill(5)}"
FormatOrderId(month_year, new_counter) ==
    month_year \o <<"-">> \o Zfill(ToStr(new_counter), 5)

NoLocals ==
    [month_year |-> <<>>, at |-> [y |-> 0, m |-> 0], result |-> <<>>,
     unique_id |-> <<>>, store_failed |-> FALSE,
     save_failed |-> FALSE, log_failed |-> FALSE, call |-> 0]

\* the request is inside write_report
Active(p) == pc[p] \notin {"idle", "done", "raised"}

\* the request is inside generate_unique_order_id
InGenerate(p) == pc[p] \in {"gen_select", "gen_write"}

MonthsElapsed == (clock.y - FirstYear) * 12 + (clock.m - 12)

\* the calendar moves on to the next month
Tick ==
    /\ MonthsElapsed < MaxTicks
    /\ clock' = IF clock.m = 12 THEN [y |-> clock.y + 1, m |-> 1]
                ELSE [y |-> clock.y, m |-> clock.m + 1]
    /\ UNCHANGED <<counters, sale_orders, reports, pc, loc, returned, ncalls, fnVars, appVars>>

\* write_report is called: the workbook and its title rows are built
Begin(p) ==
    /\ ~Active(p)
    /\ ncalls < MaxCalls
    /\ ncalls' = ncalls + 1
    /\ pc' = [pc EXCEPT ![p] = "gen_select"]
    /\ loc' = [loc EXCEPT ![p] = [NoLocals EXCEPT !.call = ncalls + 1]]
    /\ UNCHANGED <<clock, counters, sale_orders, reports, returned, fnVars, appVars>>

\* generate_unique_order_id up to fetchone(): connect, CREATE TABLE IF NOT
\* EXISTS, commit, read the date, SELECT counter FROM counters WHERE
\* month_year = ?. result is the row (a tuple of one value) or None, here
\* <<>>. The SELECT runs outside any transaction and sees the committed rows.
GenSelect(p) ==
    /\ pc[p] = "gen_select"
    /\ LET current_month_year == MonthYear(clock)
       IN  loc' = [loc EXCEPT ![p].month_year = current_month_year,
                              ![p].at = clock,
                              ![p].result =
                                  IF current_month_year \in DOMAIN counters
                                  THEN <<counters[current_month_year]>>
                                  ELSE <<>>]
    /\ pc' = [pc EXCEPT ![p] = "gen_write"]
    /\ UNCHANGED <<clock, counters, sale_orders, reports, returned, ncalls, fnVars, appVars>>

\* mutant of NewCounter: the UPDATE writes back the value it read
NewCounter_NoIncrement(result) == IF result = <<>> THEN 1 ELSE result[1]

\* the value written by the INSERT or the UPDATE
NewCounter(result) == IF result = <<>> THEN 1 ELSE result[1] + 1

\* INSERT (no row was read) or UPDATE (a row was read), conn.commit(), and the
\* identifier formatted and returned to write_report (the locals of
\* generate_unique_order_id end with the call). SQLite's write lock is held from the
\* statement to the commit, so no write or commit of another connection falls
\* between them: the two are one step.
GenWrite(p) ==
    /\ pc[p] = "gen_write"
    /\ ~(loc[p].result = <<>> /\ loc[p].month_year \in DOMAIN counters)
    /\ LET new_counter == NewCounter(loc[p].result)
           id == FormatOrderId(loc[p].month_year, new_counter)
       IN  /\ counters' = [k \in DOMAIN counters \cup {loc[p].month_year} |->
                              IF k = loc[p].month_year THEN new_counter
                              ELSE counters[k]]
           /\ loc' = [loc EXCEPT ![p] = [NoLocals EXCEPT !.call = loc[p].call,
                                                          !.unique_id = id]]
           /\ returned' = Append(returned, [at |-> loc[p].at, id |-> id])
    /\ pc' = [pc EXCEPT ![p] = "save"]
    /\ UNCHANGED <<clock, sale_orders, reports, ncalls, fnVars, appVars>>

\* mutant of GenFailed: the sqlite3.Error is not caught and leaves
\* write_report as an exception
GenFailed_Raises(p) ==
    /\ loc' = [loc EXCEPT ![p].store_failed = TRUE]
    /\ pc' = [pc EXCEPT ![p] = "raised"]
    /\ UNCHANGED <<clock, counters, sale_orders, reports, returned, ncalls, fnVars, appVars>>

\* the except branch of generate_unique_order_id: the connection is closed
\* (what was not committed is rolled back) and "ERROR-ID" is returned
GenFailed(p) ==
    /\ loc' = [loc EXCEPT ![p] = [NoLocals EXCEPT !.call = loc[p].call,
                                               !.unique_id = ERROR_ID,
                                               !.store_failed = TRUE]]
    /\ returned' = Append(returned, [at |-> loc[p].at, id |-> ERROR_ID])
    /\ pc' = [pc EXCEPT ![p] = "save"]
    /\ UNCHANGED <<clock, counters, sale_orders, reports, ncalls, fnVars, appVars>>

\* the INSERT meets a row another connection committed after the SELECT:
\* the primary key raises sqlite3.IntegrityError, caught as sqlite3.Error
GenInsertConflict(p) ==
    /\ pc[p] = "gen_write"
    /\ loc[p].result = <<>> /\ loc[p].month_year \in DOMAIN counters
    /\ GenFailed(p)

\* a sqlite3.Error anywhere in generate_unique_order_id (the store cannot be
\* opened, stays locked past the timeout, fails on I/O)
GenError(p) ==
    /\ InGenerate(p)
    /\ GenFailed(p)

\* the name of the file a call's workbook is saved under
OutputFile(p) == loc[p].call

\* the rows are rendered and wb.save(output_file) writes the workbook
Save(p) ==
    /\ pc[p] = "save"
    /\ reports' = reports \cup {OutputFile(p)}
    /\ pc' = [pc EXCEPT ![p] = "log"]
    /\ UNCHANGED <<clock, counters, sale_orders, loc, returned, ncalls, fnVars, appVars>>

\* mutant of SaveError: the failure of wb.save is swallowed and the call
\* goes on to log_order_to_database
SaveError_LogsAnyway(p) ==
    /\ pc[p] = "save"
    /\ loc' = [loc EXCEPT ![p].save_failed = TRUE]
    /\ pc' = [pc EXCEPT ![p] = "log"]
    /\ UNCHANGED <<clock, counters, sale_orders, reports, returned, ncalls, fnVars, appVars>>

\* wb.save raises (the report folder cannot be written): nothing in
\* write_report catches it, the call ends with the exception
SaveError(p) ==
    /\ pc[p] = "save"
    /\ loc' = [loc EXCEPT ![p].save_failed = TRUE, ![p].unique_id = <<>>]
    /\ pc' = [pc EXCEPT ![p] = "raised"]
    /\ UNCHANGED <<clock, counters, sale_orders, reports, returned, ncalls, fnVars, appVars>>

\* log_order_to_database: connect, CREATE TABLE IF NOT EXISTS, INSERT, commit
Log(p) ==
    /\ pc[p] = "log"
    /\ sale_orders' = Append(sale_orders,
                             [username |-> p, order_id |-> loc[p].unique_id,
                              report_name |-> OutputFile(p)])
    /\ loc' = [loc EXCEPT ![p].unique_id = <<>>]
    /\ pc' = [pc EXCEPT ![p] = "done"]
    /\ UNCHANGED <<clock, counters, reports, returned, ncalls, fnVars, appVars>>

\* a sqlite3.Error in log_order_to_database: printed, not raised
LogError(p) ==
    /\ pc[p] = "log"
    /\ loc' = [loc EXCEPT ![p].log_failed = TRUE, ![p].unique_id = <<>>]
    /\ pc' = [pc EXCEPT ![p] = "done"]
    /\ UNCHANGED <<clock, counters, sale_orders, reports, returned, ncalls, fnVars, appVars>>

SeqInit ==
    /\ clock = [y |-> FirstYear, m |-> 12]
    /\ counters = <<>>
    /\ sale_orders = <<>>
    /\ reports = {}
    /\ pc = [p \in Procs |-> "idle"]
    /\ loc = [p \in Procs |-> NoLocals]
    /\ returned = <<>>
    /\ ncalls = 0

NormIdle == nc_in = "none" /\ nc_out = "none"
SqftIdle == sq_in = "none" /\ sq_out = "none"
PrepIdle == pd_in = "none" /\ pd_out = "none"
WeightIdle == wt_in = "none" /\ wt_out = "none"
SheetIdle == wr_in = "none" /\ wr_out = "none"

FormulaIdle == sf_in = "none" /\ sf_out = "none"
FormatIdle == fo_in = "none" /\ fo_out = "none"
WebIdle ==
    /\ ACTIVE_SESSIONS = "none" /\ session = "none"
    /\ issued_order_ids = "none" /\ request = "none" /\ served = "none"
AppIdle == FormulaIdle /\ FormatIdle /\ WebIdle

FnIdle ==
    /\ NormIdle /\ SqftIdle /\ PrepIdle /\ WeightIdle /\ SheetIdle
    /\ AppIdle

Init == SeqInit /\ FnIdle

Step(p) ==
    \/ GenSelect(p)
    \/ GenWrite(p)
    \/ GenError(p)
    \/ Save(p)
    \/ SaveError(p)
    \/ Log(p)
    \/ LogError(p)

Next ==
    \/ Tick
    \/ \E p \in Procs : Begin(p) \/ GenInsertConflict(p) \/ Step(p)

\* concurrent requests
Spec == Init /\ [][Next]_vars

\* one request at a time: every call of write_report is made after the
\* one before it has ended
SerialNext ==
    \/ Tick
    \/ \E p \in {1} : Begin(p) \/ Step(p)

\* calls one after the other
SpecSerial == Init /\ [][SerialNext]_vars

-----------------------------------------------------------------------------
(* The category normalizer *)

\* number of rows of the CategoryMap table
MaxRules == 3

\* a missing cell (pandas NaN / None): a value that is no text
NaN == <<"<NaN>">>

TEX == <<"T","E","X">>
TEX_CATEGORY == <<"T","E","X"," ","C","A","T","E","G","O","R","Y">>
UNSPECIFIED == <<"U","N","S","P","E","C","I","F","I","E","D">>
WILDCARD == <<"*">>
LAMINATE == <<"l","a","m","i","n","a","t","e">>
LINER == <<"l","i","n","e","r">>

\* the product types that look the category up in the table
AllowList == {LAMINATE, LINER}

\* the test of one non-wildcard row: a '+' in the keyword makes it a
\* conjunction of its stripped parts, otherwise the keyword is one substring
RowMatches(keyword, raw_cat) ==
    IF Contains(<<"+">>, keyword)
    THEN LET ks == SplitOn(keyword, {"+"})
         IN  \A i \in 1..Len(ks) : Contains(Strip(ks[i]), raw_cat)
    ELSE Contains(keyword, raw_cat)

\* mutant of ScanRules: a wildcard row met during the scan ends it
RECURSIVE ScanRules_WildcardInOrder(_, _)
ScanRules_WildcardInOrder(cat_map, raw_cat) ==
    IF cat_map = <<>> THEN <<>>
    ELSE LET keyword == Upper(Head(cat_map).keyword)
             target == Head(cat_map).target
         IN  IF keyword = WILDCARD THEN <<target>>
             ELSE IF RowMatches(keyword, raw_cat) THEN <<target>>
             ELSE ScanRules_WildcardInOrder(Tail(cat_map), raw_cat)

\* the for loop over cat_map_df.iterrows(): <<target>> of the row that
\* returns, <<>> when the loop ends without returning
RECURSIVE ScanRules(_, _)
ScanRules(cat_map, raw_cat) ==
    IF cat_map = <<>> THEN <<>>
    ELSE LET keyword == Upper(Head(cat_map).keyword)
             target == Head(cat_map).target
         IN  IF keyword = WILDCARD THEN ScanRules(Tail(cat_map), raw_cat)
             ELSE IF RowMatches(keyword, raw_cat) THEN <<target>>
             ELSE ScanRules(Tail(cat_map), raw_cat)

\* cat_map_df[cat_map_df['MATCH KEYWORD'] == '*']['NORMALIZED CATEGORY']
DefaultTargets(cat_map) ==
    SelectSeq(cat_map, LAMBDA row : row.keyword = WILDCARD)

\* mutant of normalize_category: "TEX" is looked for in the raw category
\* as given, not in its upper-case form
normalize_category_TexAsGiven(raw_category, cat_map, product) ==
    IF raw_category = NaN THEN NaN
    ELSE LET raw_cat == Upper(raw_category)
         IN  IF Contains(TEX, raw_category) THEN TEX_CATEGORY
             ELSE IF Lower(product) \in AllowList
             THEN LET hit == ScanRules(cat_map, raw_cat)
                      default == DefaultTargets(cat_map)
                  IN  IF hit # <<>> THEN hit[1]
                      ELSE IF default # <<>> THEN default[1].target
                      ELSE raw_cat
             ELSE raw_category

\* mutant of normalize_category: every product type looks the category
\* up in the table
normalize_category_NoAllowList(raw_category, cat_map, product) ==
    IF raw_category = NaN THEN NaN
    ELSE LET raw_cat == Upper(raw_category)
         IN  IF Contains(TEX, raw_cat) THEN TEX_CATEGORY
             ELSE LET hit == ScanRules(cat_map, raw_cat)
                      default == DefaultTargets(cat_map)
                  IN  IF hit # <<>> THEN hit[1]
                      ELSE IF default # <<>> THEN default[1].target
                      ELSE raw_cat

normalize_category(raw_category, cat_map, product) ==
    IF raw_category = NaN THEN NaN
    ELSE LET raw_cat == Upper(raw_category)
         IN  IF Contains(TEX, raw_cat) THEN TEX_CATEGORY
             ELSE IF Lower(product) \in AllowList
             THEN LET hit == ScanRules(cat_map, raw_cat)
                      default == DefaultTargets(cat_map)
                  IN  IF hit # <<>> THEN hit[1]
                      ELSE IF default # <<>> THEN default[1].target
                      ELSE raw_cat
             ELSE raw_category

\* the rows a CategoryMap table is drawn from: (MATCH KEYWORD, NORMALIZED
\* CATEGORY)
Rule(keyword, target) == [keyword |-> keyword, target |-> target]

RuleAB == Rule(<<"A","+","B">>, <<"X">>)
RuleC == Rule(<<"C">>, <<"Y">>)
RuleStar == Rule(WILDCARD, <<"Z">>)
RuleLowerAB == Rule(<<"b"," ","+"," ","a">>, <<"S","F">>)
RuleB == Rule(<<"B">>, <<"H","G">>)
RuleTex == Rule(<<"T","E","X","T">>, <<"W">>)
RuleQUnspec == Rule(<<"q"," ">>, UNSPECIFIED)

Rules == {RuleAB, RuleC, RuleStar, RuleLowerAB, RuleB, RuleTex, RuleQUnspec}

RECURSIVE TablesOver(_, _)
TablesOver(rules, n) ==
    IF n = 0 THEN {<<>>}
    ELSE LET shorter == TablesOver(rules, n - 1)
         IN  shorter \cup {Append(t, r) : t \in shorter, r \in rules}


CatMaps == TablesOver(Rules, MaxRules)

\* the table of the specification's example
ExampleMap == <<RuleAB, RuleC, RuleStar>>

RawCategories ==
    { NaN, <<>>,
      <<"A"," ","B">>, <<"C">>, <<"Q">>, <<"a"," ","b">>, <<"A","b">>,
      <<"B">>, <<"b","a","c">>, <<"M","a","t","t","e">>, <<"q">>,
      <<"Q"," ","c">>,
      <<"T","E","X">>, <<"t","e","x">>, <<"a","T","e","X","b">>,
      <<"T","E"," ","X">>, <<"t","e","x","t">>, <<"C","t","E","x">> }

Products ==
    { LAMINATE, LINER,
      <<"L","a","m","i","n","a","t","e">>, <<"L","I","N","E","R">>,
      <<"l","i","n","e","r"," ">>, <<"d","o","o","r">>, <<"P","l","y">> }

NormInit ==
    /\ nc_in \in [raw : RawCategories, cat_map : CatMaps, product : Products]
    /\ nc_out = [done |-> FALSE]

\* one call of normalize_category
Normalize ==
    /\ ~nc_out.done
    /\ nc_out' = [done |-> TRUE,
                  value |-> normalize_category(nc_in.raw, nc_in.cat_map,
                                               nc_in.product)]
    /\ UNCHANGED <<nc_in, seqVars, sqftVars, prepVars, weightVars, sheetVars, appVars>>

InitNorm ==
    /\ NormInit
    /\ SeqInit
    /\ SqftIdle /\ PrepIdle /\ WeightIdle /\ SheetIdle /\ AppIdle

SpecNorm == InitNorm /\ [][Normalize]_vars

-----------------------------------------------------------------------------
(* The area calculator *)

\* the largest quantity of a row
MaxQty == 2

RECURSIVE Pow10(_)
Pow10(n) == IF n = 0 THEN 1 ELSE 10 * Pow10(n - 1)

AllDigits(s) == \A i \in 1..Len(s) : IsDigit(s[i])

\* float(s) for a decimal numeral: blanks around it are dropped, a sign may
\* lead, a point may separate a fraction, one digit at least is needed. The
\* value is the fraction num/den; ok is FALSE where float raises ValueError.
\* (Exponents, "inf" and "nan" are not drawn by the model.)
ParseFloat(s) ==
    LET t == Strip(s)
        signed == t # <<>> /\ Head(t) \in {"-", "+"}
        body == IF signed THEN Tail(t) ELSE t
        parts == SplitOn(body, {"."})
        whole == parts[1]
        frac == IF Len(parts) = 2 THEN parts[2] ELSE <<>>
        ok == /\ Len(parts) <= 2
              /\ AllDigits(whole) /\ AllDigits(frac)
              /\ Len(whole) + Len(frac) >= 1
        magnitude == ToInt(whole \o frac)
    IN  IF ok
        THEN [ok |-> TRUE,
              num |-> IF signed /\ Head(t) = "-" THEN 0 - magnitude ELSE magnitude,
              den |-> Pow10(Len(frac))]
        ELSE [ok |-> FALSE, num |-> 0, den |-> 1]

\* the number 0 that calculate_sqft returns where it gives up
Zero == [num |-> 0, den |-> 1]

\* mutant of AreaOf: the small-unit rule applies as soon as one dimension is
\* at most 15
AreaOf_EitherSmall(l, b, qty) ==
    IF l.num <= 15 * l.den \/ b.num <= 15 * b.den
    THEN [num |-> l.num * b.num * qty, den |-> l.den * b.den]
    ELSE [num |-> l.num * b.num * qty, den |-> l.den * b.den * 144]

\* lines 251-254: l * b * qty when both are at most 15, (l * b / 144) * qty
\* otherwise, as a fraction
AreaOf(l, b, qty) ==
    IF l.num <= 15 * l.den /\ b.num <= 15 * b.den
    THEN [num |-> l.num * b.num * qty, den |-> l.den * b.den]
    ELSE [num |-> l.num * b.num * qty, den |-> l.den * b.den * 144]

\* mutant of calculate_sqft: the number of parts is not tested, the first two
\* are taken
calculate_sqft_FirstTwoParts(size, qty) ==
    IF ~size.is_str \/ ~Contains(<<"X">>, Upper(size.text)) THEN Zero
    ELSE LET parts == SplitOn(size.text, {"x", "X"})
             l == ParseFloat(parts[1])
             b == ParseFloat(parts[2])
         IN  IF ~l.ok \/ ~b.ok THEN Zero
             ELSE AreaOf(l, b, qty)

\* size is [is_str, text]: a cell that holds a str, or a cell of another type
calculate_sqft(size, qty) ==
    IF ~size.is_str \/ ~Contains(<<"X">>, Upper(size.text)) THEN Zero
    ELSE LET parts == SplitOn(size.text, {"x", "X"})
         IN  IF Len(parts) # 2 THEN Zero
             ELSE LET l == ParseFloat(parts[1])
                      b == ParseFloat(parts[2])
                  IN  IF ~l.ok \/ ~b.ok THEN Zero
                      ELSE AreaOf(l, b, qty)

\* the dimensions sizes are written from, in tenths: 0, 0.5, 4, 7.5, 8,
\* 14.9, 15, 15.1, 16, 48, 72, and -4
DimTenths == {0, 5, 40, 75, 80, 149, 150, 151, 160, 480, 720, 0 - 40}

\* a dimension as it is typed in a size cell: "8", "7.5", "-4"
FormatDim(tenths) ==
    LET magnitude == IF tenths < 0 THEN 0 - tenths ELSE tenths
        digits == IF magnitude % 10 = 0 THEN ToStr(magnitude \div 10)
                  ELSE ToStr(magnitude \div 10) \o <<".">> \o ToStr(magnitude % 10)
    IN  IF tenths < 0 THEN <<"-">> \o digits ELSE digits

Str(text) == [is_str |-> TRUE, text |-> text]

\* the well-formed sizes "LxB", each with the dimensions it was written from
WellFormedSizes ==
    {[size |-> Str(FormatDim(l) \o <<sep>> \o FormatDim(b)),
      kind |-> "LxB", l |-> l, b |-> b] :
        l \in DimTenths, b \in DimTenths, sep \in {"x", "X"}}

\* sizes that are no "LxB": another cell type, no separator, one or three
\* parts, parts that are no numbers
MalformedSizes ==
    {[size |-> sz, kind |-> "malformed", l |-> 0, b |-> 0] :
        sz \in { [is_str |-> FALSE, text |-> <<"8">>],
                 Str(<<>>), Str(<<"8">>), Str(<<"8","*","4">>),
                 Str(<<"8","x">>), Str(<<"x","4">>), Str(<<"x">>),
                 Str(<<"8","x","4","x","2">>), Str(<<"a","x","b">>),
                 Str(<<"8","x","4","f","t">>), Str(<<"8","-","x","4">>),
                 Str(<<".","x","4">>), Str(<<"1",".","2",".","3","x","4">>) }}

Quantities == (0 - 1)..MaxQty

SqftInit ==
    /\ sq_in \in {[size |-> c.size, kind |-> c.kind, l |-> c.l, b |-> c.b,
                   qty |-> q] : c \in WellFormedSizes \cup MalformedSizes,
                                q \in Quantities}
    /\ sq_out = [done |-> FALSE]

\* one call of calculate_sqft
CalculateSqft ==
    /\ ~sq_out.done
    /\ sq_out' = [done |-> TRUE, value |-> calculate_sqft(sq_in.size, sq_in.qty)]
    /\ UNCHANGED <<sq_in, seqVars, normVars, prepVars, weightVars, sheetVars, appVars>>

InitSqft ==
    /\ SqftInit
    /\ SeqInit
    /\ NormIdle /\ PrepIdle /\ WeightIdle /\ SheetIdle /\ AppIdle

SpecSqft == InitSqft /\ [][CalculateSqft]_vars

-----------------------------------------------------------------------------
(* The data loader and sorter *)

\* number of rows of the Master table
MaxRows == 2
\* number of rows of the CategoryMap table of a loaded document
MaxMapRows == 2

\* the characters of the model in code point order
Ascii ==
    <<" ","*","+","-",".","0","1","2","3","4","5","6","7","8","9",
      "A","B","C","D","E","F","G","H","I","J","K","L","M",
      "N","O","P","Q","R","S","T","U","V","W","X","Y","Z",
      "a","b","c","d","e","f","g","h","i","j","k","l","m",
      "n","o","p","q","r","s","t","u","v","w","x","y","z">>

CharCode(c) == CHOOSE i \in 1..Len(Ascii) : Ascii[i] = c

\* a < b for two str values
RECURSIVE TextLess(_, _)
TextLess(a, b) ==
    IF b = <<>> THEN FALSE
    ELSE IF a = <<>> THEN TRUE
    ELSE IF Head(a) = Head(b) THEN TextLess(Tail(a), Tail(b))
    ELSE CharCode(Head(a)) < CharCode(Head(b))

\* a cell holding a number
Num(n) ==
    [is_str |-> FALSE,
     text |-> IF n < 0 THEN <<"-">> \o ToStr(0 - n) ELSE ToStr(n),
     num |-> n]

\* a cell holding text
Txt(text) == [is_str |-> TRUE, text |-> text, num |-> 0]

\* an empty cell
NoCell == [is_str |-> FALSE, text |-> <<"n","a","n">>, num |-> 0]

\* astype(str).str.strip() of a cell
CellStr(cell) == Strip(cell.text)

\* pd.to_numeric(cell, errors='coerce'): <<n>> for a number or a numeral,
\* <<>> (NaN) otherwise. The model draws whole numbers only.
ToNumeric(cell) ==
    IF cell = NoCell THEN <<>>
    ELSE IF ~cell.is_str THEN <<cell.num>>
    ELSE LET f == ParseFloat(cell.text)
         IN  IF f.ok /\ f.num % f.den = 0 THEN <<f.num \div f.den>> ELSE <<>>

\* the value normalize_category is given for a CATEGORY cell
RawOf(cell) == IF cell = NoCell THEN NaN ELSE cell.text

SheetNames ==
    {"Master", "CategoryMap", "WeightMap", "HDMRWeightMap", "MDFWeightMap",
     "PlyWeightMap", "PVCWeightMap", "WPCBoardWeightMap"}

\* the built-in data of lines 275-278, used when reading a sheet fails
FallbackMaster ==
    <<[product |-> Txt(<<"L","a","m","i","n","a","t","e">>),
       size |-> Txt(<<"7","2","x","4","8">>),
       category |-> Txt(<<"S","F">>),
       brand |-> Txt(<<"T","e","s","t">>),
       quantity |-> Num(10)]>>

FallbackCatMap == <<Rule(WILDCARD, <<"D","e","f","a","u","l","t">>)>>

\* lines 264-278: the eight sheets are read in one try; when any read fails,
\* every table is replaced by the built-in data
ReadSheets(doc) ==
    IF doc.missing = {}
    THEN [df |-> doc.master, cat_map |-> doc.cat_map,
          weight_rows |-> doc.weight_rows,
          hdmr_rows |-> doc.thickness_rows.hdmr,
          mdf_rows |-> doc.thickness_rows.mdf,
          ply_rows |-> doc.thickness_rows.ply,
          pvc_rows |-> doc.thickness_rows.pvc,
          wpc_rows |-> doc.thickness_rows.wpc,
          fallback |-> FALSE]
    ELSE [df |-> FallbackMaster, cat_map |-> FallbackCatMap,
          weight_rows |-> <<>>,
          hdmr_rows |-> <<>>, mdf_rows |-> <<>>, ply_rows |-> <<>>,
          pvc_rows |-> <<>>, wpc_rows |-> <<>>,
          fallback |-> TRUE]

\* A dict is the sequence of its [key, value] items in insertion order; an
\* item inserted again under an equal key replaces the earlier one, so a
\* lookup reads the last item with the key.

\* lines 280-282: (str(PRODUCT).lower(), str(BRAND).upper()) -> WEIGHT_PER_PCS
WeightMapOf(weight_rows) ==
    [i \in 1..Len(weight_rows) |->
        [key |-> <<Lower(weight_rows[i].product.text),
                   Upper(weight_rows[i].brand.text)>>,
         value |-> weight_rows[i].weight.text]]

\* float(cell): a number, or the numeral a str cell holds; ok is FALSE where
\* float raises
FloatOf(cell) ==
    IF cell.is_str THEN ParseFloat(cell.text)
    ELSE [ok |-> TRUE, num |-> cell.num, den |-> 1]

\* lines 283-297: float(THICKNESS) -> weight; the dict is empty when float
\* raises for one of the rows. A row whose THICKNESS cell is empty gets the
\* key nan, which no lookup finds: it is left out.
ThicknessMapOf(rows) ==
    IF \E i \in 1..Len(rows) : rows[i].thickness # NoCell /\ ~FloatOf(rows[i].thickness).ok
    THEN <<>>
    ELSE LET kept == SelectSeq(rows, LAMBDA row : row.thickness # NoCell)
         IN  [i \in 1..Len(kept) |->
                 [key |-> [num |-> FloatOf(kept[i].thickness).num,
                           den |-> FloatOf(kept[i].thickness).den],
                  value |-> kept[i].weight.text]]

\* drop_duplicates / unique: the first occurrence of each value, in order
RECURSIVE Unique(_)
Unique(seq) ==
    IF seq = <<>> THEN <<>>
    ELSE LET init == Unique(SubSeq(seq, 1, Len(seq) - 1))
             last == seq[Len(seq)]
         IN  IF \E i \in 1..Len(init) : init[i] = last THEN init
             ELSE Append(init, last)

Has(seq, x) == \E i \in 1..Len(seq) : seq[i] = x

\* line 300: the targets of the rows that are no wildcard, without repeats
MappedCategories(cat_map) ==
    LET rows == SelectSeq(cat_map, LAMBDA row : row.keyword # WILDCARD)
    IN  Unique([i \in 1..Len(rows) |-> rows[i].target])

\* lines 301-302: normalize_category of every row, missing results filled
\* with 'UNSPECIFIED'
CategoryNorm(df, cat_map) ==
    [i \in 1..Len(df) |->
        LET c == normalize_category(RawOf(df[i].category), cat_map,
                                    df[i].product.text)
        IN  IF c = NaN THEN UNSPECIFIED ELSE c]

SF == <<"S","F">>
HG == <<"H","G">>

\* lines 316-318: the categories not yet in the order, in first-seen order
RECURSIVE AppendMissing(_, _)
AppendMissing(cat_order, cats) ==
    IF cats = <<>> THEN cat_order
    ELSE AppendMissing(IF Has(cat_order, Head(cats)) THEN cat_order
                       ELSE Append(cat_order, Head(cats)),
                       Tail(cats))

\* mutant of CatOrder: the categories left over are not appended
CatOrder_NoLeftovers(mapped_categories, all_unique_categories) ==
    LET sf == IF Has(mapped_categories, SF) /\ Has(all_unique_categories, SF)
              THEN <<SF>> ELSE <<>>
        hg == IF Has(mapped_categories, HG) /\ Has(all_unique_categories, HG)
              THEN <<HG>> ELSE <<>>
        mapped == SelectSeq(mapped_categories,
                      LAMBDA cat : /\ Has(all_unique_categories, cat)
                                   /\ cat \notin {SF, HG, TEX_CATEGORY})
        tex == IF Has(all_unique_categories, TEX_CATEGORY)
               THEN <<TEX_CATEGORY>> ELSE <<>>
        unspecified == IF Has(all_unique_categories, UNSPECIFIED)
                       THEN <<UNSPECIFIED>> ELSE <<>>
    IN  sf \o hg \o mapped \o tex \o unspecified

\* lines 304-318: the category order
CatOrder(mapped_categories, all_unique_categories) ==
    LET sf == IF Has(mapped_categories, SF) /\ Has(all_unique_categories, SF)
              THEN <<SF>> ELSE <<>>
        hg == IF Has(mapped_categories, HG) /\ Has(all_unique_categories, HG)
              THEN <<HG>> ELSE <<>>
        mapped == SelectSeq(mapped_categories,
                      LAMBDA cat : /\ Has(all_unique_categories, cat)
                                   /\ cat \notin {SF, HG, TEX_CATEGORY})
        tex == IF Has(all_unique_categories, TEX_CATEGORY)
               THEN <<TEX_CATEGORY>> ELSE <<>>
        unspecified == IF Has(all_unique_categories, UNSPECIFIED)
                       THEN <<UNSPECIFIED>> ELSE <<>>
    IN  AppendMissing(sf \o hg \o mapped \o tex \o unspecified,
                      all_unique_categories)

\* pd.Categorical raises ValueError when its categories repeat
CategoricalRaises(cat_order) ==
    \E i, j \in 1..Len(cat_order) : i # j /\ cat_order[i] = cat_order[j]

\* line 330, pd.Categorical(values, categories=cat_order): a value that is
\* no category becomes NaN
Categorical(values, cat_order) ==
    [i \in 1..Len(values) |->
        IF Has(cat_order, values[i]) THEN values[i] ELSE NaN]

\* the position a category sorts at: its index in the order, after all of
\* them when it is NaN
CatPosition(cat, cat_order) ==
    IF Has(cat_order, cat)
    THEN CHOOSE i \in 1..Len(cat_order) : cat_order[i] = cat
    ELSE Len(cat_order) + 1

\* row a sorts before row b by ['BRAND', 'CATEGORY_NORM', 'PRODUCT',
\* 'SIZE_NUMERIC'], ascending, NaN last
RowBefore(a, b) ==
    IF a.brand # b.brand THEN TextLess(a.brand, b.brand)
    ELSE IF a.cat_pos # b.cat_pos THEN a.cat_pos < b.cat_pos
    ELSE IF a.product # b.product THEN TextLess(a.product, b.product)
    ELSE IF a.size_numeric = <<>> THEN FALSE
    ELSE IF b.size_numeric = <<>> THEN TRUE
    ELSE a.size_numeric[1] < b.size_numeric[1]

\* line 333, sort_values on several columns: a stable sort, rows with equal
\* keys keep their order
RECURSIVE SortRows(_)
SortRows(rows) ==
    IF rows = <<>> THEN <<>>
    ELSE LET init == SortRows(SubSeq(rows, 1, Len(rows) - 1))
             last == rows[Len(rows)]
             k == Cardinality({i \in 1..Len(init) : ~RowBefore(last, init[i])})
         IN  SubSeq(init, 1, k) \o <<last>> \o SubSeq(init, k + 1, Len(init))

\* prepare_data(input_file)
prepare_data(doc) ==
    LET read == ReadSheets(doc)
        df == read.df
        mapped_categories == MappedCategories(read.cat_map)
        category_norm == CategoryNorm(df, read.cat_map)
        all_unique_categories == Unique(category_norm)
        cat_order == CatOrder(mapped_categories, all_unique_categories)
        categorical == IF cat_order # <<>>
                       THEN Categorical(category_norm, cat_order)
                       ELSE category_norm
        rows == [i \in 1..Len(df) |->
                    LET quantity == IF ToNumeric(df[i].quantity) = <<>> THEN 0
                                    ELSE ToNumeric(df[i].quantity)[1]
                        size == CellStr(df[i].size)
                    IN  [product |-> CellStr(df[i].product),
                         size |-> size,
                         category |-> CellStr(df[i].category),
                         brand |-> CellStr(df[i].brand),
                         quantity |-> quantity,
                         sqft |-> calculate_sqft(Str(size), quantity),
                         category_norm |-> categorical[i],
                         cat_pos |-> CatPosition(categorical[i], cat_order),
                         size_numeric |-> ToNumeric(Txt(size)),
                         input_row |-> i]]
    IN  IF cat_order # <<>> /\ CategoricalRaises(cat_order)
        THEN [done |-> TRUE, raised |-> TRUE, cat_order |-> cat_order]
        ELSE [done |-> TRUE, raised |-> FALSE,
              df |-> SortRows(rows),
              cat_order |-> cat_order,
              weight_map |-> WeightMapOf(read.weight_rows),
              hdmr_map |-> ThicknessMapOf(read.hdmr_rows),
              mdf_map |-> ThicknessMapOf(read.mdf_rows),
              ply_map |-> ThicknessMapOf(read.ply_rows),
              pvc_map |-> ThicknessMapOf(read.pvc_rows),
              wpc_map |-> ThicknessMapOf(read.wpc_rows),
              fallback |-> read.fallback]

\* the rows a Master table is drawn from
MasterRow(product, size, category, brand, quantity) ==
    [product |-> product, size |-> size, category |-> category,
     brand |-> brand, quantity |-> quantity]

BrandB1 == Txt(<<"B","1">>)
BrandA1 == Txt(<<"a","1">>)

MasterRows ==
    { MasterRow(Txt(<<"L","a","m","i","n","a","t","e">>), Txt(<<"8","x","4">>),
                Txt(<<"A"," ","B">>), BrandB1, Num(5)),
      MasterRow(Txt(LAMINATE), Txt(<<"8","x","4">>),
                NoCell, BrandB1, Num(3)),
      MasterRow(Txt(<<"D","o","o","r">>), Txt(<<"7","2","x","4","8">>),
                Txt(SF), BrandA1, Num(2)),
      MasterRow(Txt(LINER), Num(48),
                Txt(<<"t","e","x">>), BrandB1, Txt(<<"a","b","c">>)),
      MasterRow(Txt(LAMINATE), Txt(<<"1","0","x","4">>),
                Txt(<<"Q"," ","c">>), BrandA1, Num(0 - 1)),
      MasterRow(Txt(LAMINATE), Num(9),
                Txt(<<"M","a","t","t","e">>), BrandB1, Txt(<<"4">>)),
      MasterRow(Txt(<<"l","a","m","i","n","a","t","e"," ">>), Txt(<<"4","x","8">>),
                Txt(<<"B">>), BrandB1, NoCell) }

RECURSIVE MastersUpTo(_)
MastersUpTo(n) ==
    IF n = 1 THEN {<<r>> : r \in MasterRows}
    ELSE LET shorter == MastersUpTo(n - 1)
         IN  shorter \cup {Append(t, r) : t \in shorter, r \in MasterRows}

PrepRules == {RuleAB, RuleB, RuleStar, RuleLowerAB, RuleQUnspec}

\* the rows of the WeightMap sheet of the documents
WeightRows ==
    <<[product |-> Txt(<<"L","a","m","i","n","a","t","e">>),
       brand |-> Txt(<<"b","1">>), weight |-> Num(2)],
      [product |-> Txt(LINER), brand |-> Txt(<<"B","1">>), weight |-> Num(4)],
      [product |-> Txt(LAMINATE), brand |-> Txt(<<"B","1">>), weight |-> Num(3)]>>

ThicknessRow(thickness, weight) == [thickness |-> thickness, weight |-> weight]

\* the rows of the five thickness sheets of the documents
ThicknessRows ==
    [hdmr |-> <<ThicknessRow(Num(18), Num(30)), ThicknessRow(Num(12), Num(20))>>,
     mdf |-> <<ThicknessRow(Txt(<<"6",".","5">>), Num(9)),
               ThicknessRow(Num(18), Num(5)), ThicknessRow(Num(18), Num(7))>>,
     ply |-> <<ThicknessRow(Num(18), Num(2)), ThicknessRow(NoCell, Num(8))>>,
     pvc |-> <<ThicknessRow(Num(12), Num(6))>>,
     wpc |-> <<ThicknessRow(Num(18), Num(11)),
               ThicknessRow(Txt(<<"1","8","m","m">>), Num(1))>>]

RuleQZ == Rule(<<"Q">>, <<"Z">>)

\* a document whose rows carry the categories SF, Z, HG and TEX CATEGORY,
\* with the mapping order [HG, Z]
OrderExample ==
    [master |->
        <<MasterRow(Txt(<<"D","o","o","r">>), Txt(<<"7","2","x","4","8">>),
                    Txt(SF), BrandB1, Num(2)),
          MasterRow(Txt(LAMINATE), Txt(<<"8","x","4">>),
                    Txt(<<"Q"," ","c">>), BrandB1, Num(1)),
          MasterRow(Txt(LAMINATE), Txt(<<"8","x","4">>),
                    Txt(<<"B">>), BrandB1, Num(4)),
          MasterRow(Txt(LINER), Txt(<<"8","x","4">>),
                    Txt(<<"t","e","x">>), BrandB1, Num(6))>>,
     cat_map |-> <<RuleB, RuleQZ>>,
     weight_rows |-> WeightRows,
     thickness_rows |-> ThicknessRows,
     missing |-> {}]

\* a document with two rows of brand B1 and category SF, quantities 5 and
\* 3, that differ in nothing else but the size; neither size is a number
SizesExample ==
    [master |->
        <<MasterRow(Txt(LAMINATE), Txt(<<"8","x","4">>),
                    Txt(SF), BrandB1, Num(5)),
          MasterRow(Txt(LAMINATE), Txt(<<"1","0","x","4">>),
                    Txt(SF), BrandB1, Num(3))>>,
     cat_map |-> <<RuleB>>,
     weight_rows |-> WeightRows,
     thickness_rows |-> ThicknessRows,
     missing |-> {}]

ExampleDocuments == {OrderExample, SizesExample}

\* the documents prepare_data is given: every sheet readable, or one sheet
\* absent
Documents ==
    {[master |-> mt, cat_map |-> cm, weight_rows |-> WeightRows,
      thickness_rows |-> ThicknessRows, missing |-> {}] :
        mt \in MastersUpTo(MaxRows), cm \in TablesOver(PrepRules, MaxMapRows)}
    \cup
    {[master |-> mt, cat_map |-> ExampleMap, weight_rows |-> WeightRows,
      thickness_rows |-> ThicknessRows, missing |-> {sheet}] :
        mt \in MastersUpTo(1), sheet \in SheetNames}
    \cup ExampleDocuments

PrepInit ==
    /\ pd_in \in Documents
    /\ pd_out = [done |-> FALSE]

\* one call of prepare_data
PrepareData ==
    /\ ~pd_out.done
    /\ pd_out' = prepare_data(pd_in)
    /\ UNCHANGED <<pd_in, seqVars, normVars, sqftVars, weightVars, sheetVars, appVars>>

InitPrep ==
    /\ PrepInit
    /\ SeqInit
    /\ NormIdle /\ SqftIdle /\ WeightIdle /\ SheetIdle /\ AppIdle

SpecPrep == InitPrep /\ [][PrepareData]_vars

-----------------------------------------------------------------------------
(* The weight formula *)

\* the number of leading digits of s
RECURSIVE DigitRun(_)
DigitRun(s) ==
    IF s # <<>> /\ IsDigit(Head(s)) THEN 1 + DigitRun(Tail(s)) ELSE 0

\* re.match(r"(\d+\.?\d*)mm", str(category).lower()): <<float(group 1)>>, or
\* <<>> for None. The match starts at the first character: digits, at most
\* one point, digits, then "mm".
extract_thickness_from_category(category) ==
    LET s == Lower(category)
        n1 == DigitRun(s)
        after == SubSeq(s, n1 + 1, Len(s))
        dotted == after # <<>> /\ Head(after) = "."
        rest == IF dotted THEN Tail(after) ELSE after
        n2 == DigitRun(rest)
        tail == SubSeq(rest, n2 + 1, Len(rest))
        group == SubSeq(s, 1, n1 + (IF dotted THEN 1 ELSE 0) + n2)
        matched == /\ n1 >= 1
                   /\ Len(tail) >= 2 /\ tail[1] = "m" /\ tail[2] = "m"
    IN  IF matched
        THEN <<[num |-> ParseFloat(group).num, den |-> ParseFloat(group).den]>>
        ELSE <<>>

\* two floats are equal
FloatEq(x, y) == x.num * y.den = y.num * x.den

\* the items of a thickness dict found under a float key
ThicknessHits(map, thickness) ==
    {i \in 1..Len(map) : FloatEq(map[i].key, thickness)}

\* the items of the weight dict found under a (product, brand) key
KeyHits(map, key) == {i \in 1..Len(map) : map[i].key = key}

Last(S) == CHOOSE i \in S : \A j \in S : j <= i

\* hardcoded_weights, lines 178-181, as the f-string writes the values
HardcodedWeights ==
    {[product |-> <<"d","o","o","r">>, weight |-> <<"1",".","5">>],
     [product |-> <<"b","o","a","r","d">>, weight |-> <<"1">>]}

HDMR == <<"h","d","m","r">>
MDF == <<"m","d","f">>
PLY == <<"p","l","y">>
PVC_DOOR == <<"p","v","c"," ","d","o","o","r">>
WPC_BOARD == <<"w","p","c"," ","b","o","a","r","d">>

\* thickness_maps, lines 183-189: the dict a product name selects
ThicknessMaps(maps) ==
    {[product |-> HDMR, map |-> maps.hdmr_map],
     [product |-> MDF, map |-> maps.mdf_map],
     [product |-> PLY, map |-> maps.ply_map],
     [product |-> PVC_DOOR, map |-> maps.pvc_map],
     [product |-> WPC_BOARD, map |-> maps.wpc_map]}

\* f"={col}{row_num}*{weight_val}"
WeightFormula(col, row_num, weight_val) ==
    <<"=", col>> \o ToStr(row_num) \o <<"*">> \o weight_val

ZeroFormula == <<"0">>

\* mutant of get_weight_formula: every thickness rule multiplies the
\* quantity cell
get_weight_formula_AllOnQuantity(row, maps, row_num) ==
    LET product == Lower(row.product)
        brand == Upper(row.brand)
        category == Lower(row.category)
        hard == {h \in HardcodedWeights : h.product = product}
        thick == {t \in ThicknessMaps(maps) : t.product = product}
        thickness == extract_thickness_from_category(category)
        map == (CHOOSE t \in thick : TRUE).map
        key == <<product, brand>>
    IN  IF hard # {}
        THEN WeightFormula("F", row_num, (CHOOSE h \in hard : TRUE).weight)
        ELSE IF /\ thick # {}
                /\ thickness # <<>>
                /\ ThicknessHits(map, thickness[1]) # {}
        THEN WeightFormula("E", row_num,
                           map[Last(ThicknessHits(map, thickness[1]))].value)
        ELSE IF /\ product \in {LAMINATE, LINER}
                /\ KeyHits(maps.weight_map, key) # {}
        THEN WeightFormula("E", row_num,
                 maps.weight_map[Last(KeyHits(maps.weight_map, key))].value)
        ELSE ZeroFormula

\* get_weight_formula(row, weight_map, hdmr_map, mdf_map, ply_map, pvc_map,
\* wpc_map, row_num); maps holds the six dicts
get_weight_formula(row, maps, row_num) ==
    LET product == Lower(row.product)
        brand == Upper(row.brand)
        category == Lower(row.category)
        hard == {h \in HardcodedWeights : h.product = product}
        thick == {t \in ThicknessMaps(maps) : t.product = product}
        thickness == extract_thickness_from_category(category)
        map == (CHOOSE t \in thick : TRUE).map
        key == <<product, brand>>
    IN  IF hard # {}
        THEN WeightFormula("F", row_num, (CHOOSE h \in hard : TRUE).weight)
        ELSE IF /\ thick # {}
                /\ thickness # <<>>
                /\ ThicknessHits(map, thickness[1]) # {}
        THEN WeightFormula(IF product \in {PLY, PVC_DOOR} THEN "F" ELSE "E",
                           row_num,
                           map[Last(ThicknessHits(map, thickness[1]))].value)
        ELSE IF /\ product \in {LAMINATE, LINER}
                /\ KeyHits(maps.weight_map, key) # {}
        THEN WeightFormula("E", row_num,
                 maps.weight_map[Last(KeyHits(maps.weight_map, key))].value)
        ELSE ZeroFormula

\* the six dicts prepare_data builds from the sheets of a document
MapsOf(weight_rows, thickness_rows) ==
    [weight_map |-> WeightMapOf(weight_rows),
     hdmr_map |-> ThicknessMapOf(thickness_rows.hdmr),
     mdf_map |-> ThicknessMapOf(thickness_rows.mdf),
     ply_map |-> ThicknessMapOf(thickness_rows.ply),
     pvc_map |-> ThicknessMapOf(thickness_rows.pvc),
     wpc_map |-> ThicknessMapOf(thickness_rows.wpc)]

\* a second set of thickness sheets, every one of them well formed
OtherThicknessRows ==
    [hdmr |-> <<ThicknessRow(Txt(<<"6",".","5">>), Num(14))>>,
     mdf |-> <<ThicknessRow(Num(12), Num(8))>>,
     ply |-> <<ThicknessRow(Num(12), Num(3)), ThicknessRow(Txt(<<"6",".","5">>), Num(1))>>,
     pvc |-> <<ThicknessRow(Num(18), Num(9)), ThicknessRow(Txt(<<"6",".","5">>), Num(4))>>,
     wpc |-> <<ThicknessRow(Num(18), Num(11)), ThicknessRow(Num(12), Num(10))>>]

NoThicknessRows ==
    [hdmr |-> <<>>, mdf |-> <<>>, ply |-> <<>>, pvc |-> <<>>, wpc |-> <<>>]

\* the dicts get_weight_formula is called with
WeightMaps ==
    {MapsOf(WeightRows, ThicknessRows), MapsOf(WeightRows, OtherThicknessRows),
     MapsOf(<<>>, NoThicknessRows)}

\* the PRODUCT, BRAND and CATEGORY cells of the rows it is called with
WeightProducts ==
    { <<"d","o","o","r">>, <<"D","o","o","r">>, <<"b","o","a","r","d">>,
      HDMR, <<"H","D","M","R">>, MDF, PLY, <<"P","l","y">>, PVC_DOOR,
      WPC_BOARD, <<"W","P","C"," ","B","o","a","r","d">>,
      LAMINATE, <<"L","a","m","i","n","a","t","e">>, LINER,
      <<"w","p","c">>, <<"p","v","c">>, <<"s","o","f","a">>, <<"n","a","n">> }

WeightBrands == { <<"b","1">>, <<"B","1">>, <<"a","1">>, <<"n","a","n">> }

WeightCategories ==
    { <<"1","8","m","m">>, <<"1","8","M","M"," ","P","l","a","i","n">>,
      <<"1","2","m","m">>, <<"6",".","5","m","m">>, <<"1","8",".","m","m">>,
      <<"1","8",".","0","m","m">>, <<"2","5","m","m">>,
      <<"1","8"," ","m","m">>, <<"m","m","1","8">>, <<"1","8","m">>,
      <<".","5","m","m">>, <<"S","F">>, <<"n","a","n">>, <<>> }

\* the sheet rows a data row can be written to
RowNums == {12, 105}

WeightInit ==
    /\ wt_in \in [row : [product : WeightProducts, brand : WeightBrands,
                         category : WeightCategories],
                  maps : WeightMaps, row_num : RowNums]
    /\ wt_out = [done |-> FALSE]

\* one call of get_weight_formula
GetWeightFormula ==
    /\ ~wt_out.done
    /\ wt_out' = [done |-> TRUE,
                  value |-> get_weight_formula(wt_in.row, wt_in.maps,
                                               wt_in.row_num)]
    /\ UNCHANGED <<wt_in, seqVars, normVars, sqftVars, prepVars, sheetVars, appVars>>

InitWeight ==
    /\ WeightInit
    /\ SeqInit
    /\ NormIdle /\ SqftIdle /\ PrepIdle /\ SheetIdle /\ AppIdle

SpecWeight == InitWeight /\ [][GetWeightFormula]_vars

-----------------------------------------------------------------------------
(* The worksheet write_report fills *)

\* lines 348-411: two title rows, a blank row, five information rows, a
\* blank row and the header row come before the first data row
FirstDataRow == 11

\* get_sqft_formula(row, row_num): "0" for laminate and liner, the LET
\* formula on the cells B and E of the row otherwise
get_sqft_formula(row, row_num) ==
    IF Lower(row.product) \in {LAMINATE, LINER}
    THEN [kind |-> "zero"]
    ELSE [kind |-> "let", size_cell |-> <<"B">> \o ToStr(row_num),
          qty_cell |-> <<"E">> \o ToStr(row_num)]

\* f"{col}{first}:{col}{last}"
RangeText(col, range) ==
    <<col>> \o ToStr(range.first) \o <<":", col>> \o ToStr(range.last)

\* ','.join of the range texts
RECURSIVE JoinRanges(_, _)
JoinRanges(col, ranges) ==
    IF ranges = <<>> THEN <<>>
    ELSE IF Len(ranges) = 1 THEN RangeText(col, ranges[1])
    ELSE RangeText(col, ranges[1]) \o <<",">> \o JoinRanges(col, Tail(ranges))

\* f"=SUM({','.join(ranges)})"
SumFormula(col, ranges) ==
    <<"=","S","U","M","(">> \o JoinRanges(col, ranges) \o <<")">>

\* the value of a total cell: the SUM formula, or 0 without ranges
TotalCell(col, ranges) ==
    IF ranges # <<>> THEN SumFormula(col, ranges) ELSE <<"0">>

\* lines 434-442: the cells of a data row
DataRow(row, current_row, maps) ==
    [row_num |-> current_row, kind |-> "data",
     product |-> row.product, size |-> row.size, category |-> row.category,
     brand |-> row.brand, quantity |-> row.quantity,
     sqft |-> get_sqft_formula(row, current_row),
     weight |-> get_weight_formula(row, maps, current_row),
     category_norm |-> row.category_norm, input_row |-> row.input_row]

\* mutant of SubtotalRange: the range ends at the subtotal row
SubtotalRange_ToCurrentRow(category_data_start_row, current_row) ==
    [first |-> category_data_start_row, last |-> current_row]

\* lines 450-452: the rows a subtotal sums, from the first data row of the
\* group to the row before the subtotal
SubtotalRange(category_data_start_row, current_row) ==
    [first |-> category_data_start_row, last |-> current_row - 1]

\* lines 453-462: the subtotal row of a category group
SubtotalRow(current_row, category_name, range) ==
    [row_num |-> current_row, kind |-> "subtotal",
     label |-> category_name, ranges |-> <<range>>,
     quantity |-> SumFormula("E", <<range>>),
     sqft |-> SumFormula("F", <<range>>),
     weight |-> SumFormula("G", <<range>>)]

\* add_blank_row
BlankRow(current_row) == [row_num |-> current_row, kind |-> "blank"]

\* lines 429-465: one category group of a brand; st holds the sheet rows
\* written so far, current_row and the brand's ranges
RenderCategory(st, category_name, category_group, maps) ==
    LET category_data_start_row == st.current_row
        data == [i \in 1..Len(category_group) |->
                    DataRow(category_group[i],
                            category_data_start_row + i - 1, maps)]
        current_row == category_data_start_row + Len(category_group)
        range == SubtotalRange(category_data_start_row, current_row)
    IN  IF current_row > category_data_start_row
        THEN [sheet |-> st.sheet \o data
                          \o <<SubtotalRow(current_row, category_name, range),
                               BlankRow(current_row + 1)>>,
              current_row |-> current_row + 2,
              brand_ranges |-> Append(st.brand_ranges, range)]
        ELSE st

\* the rows of a brand group with one normalized category, in their order
CategoryGroup(brand_group, category_name) ==
    SelectSeq(brand_group, LAMBDA row : row.category_norm = category_name)

\* the groups of groupby('CATEGORY_NORM', sort=False) that hold rows, in the
\* order their first rows appear (a category without rows renders nothing)
RECURSIVE RenderCategories(_, _, _, _)
RenderCategories(st, names, brand_group, maps) ==
    IF names = <<>> THEN st
    ELSE RenderCategories(
             RenderCategory(st, Head(names),
                            CategoryGroup(brand_group, Head(names)), maps),
             Tail(names), brand_group, maps)

\* lines 466-482: the brand total row
BrandTotalRow(current_row, brand_name, ranges) ==
    [row_num |-> current_row, kind |-> "brand_total",
     label |-> brand_name, ranges |-> ranges,
     quantity |-> TotalCell("E", ranges),
     sqft |-> TotalCell("F", ranges),
     weight |-> TotalCell("G", ranges)]

\* mutant of ExtendRanges: the ranges of the brands before are dropped
ExtendRanges_LastBrandOnly(all_ranges, brand_ranges) == brand_ranges

\* lines 483-485: all_*_sum_ranges.extend(brand_total_*_ranges)
ExtendRanges(all_ranges, brand_ranges) == all_ranges \o brand_ranges

\* lines 466-485: the end of a brand group; st is the state after its
\* category groups
EndBrand(st, brand_name, brand_group, all_ranges) ==
    IF Len(brand_group) > 0
    THEN [sheet |-> st.sheet \o
                    <<BrandTotalRow(st.current_row, brand_name, st.brand_ranges),
                      BlankRow(st.current_row + 1)>>,
          current_row |-> st.current_row + 2,
          all_ranges |-> ExtendRanges(all_ranges, st.brand_ranges)]
    ELSE [sheet |-> st.sheet,
          current_row |-> st.current_row,
          all_ranges |-> ExtendRanges(all_ranges, st.brand_ranges)]

\* the normalized categories of the rows, each once, as they first appear
CategoryNames(rows) ==
    Unique([i \in 1..Len(rows) |-> rows[i].category_norm])

\* lines 419-485: one brand group; acc holds the sheet rows written so far,
\* current_row and the ranges of all brands
RenderBrand(acc, brand_name, brand_group, maps) ==
    EndBrand(RenderCategories([sheet |-> acc.sheet,
                               current_row |-> acc.current_row,
                               brand_ranges |-> <<>>],
                              CategoryNames(brand_group), brand_group, maps),
             brand_name, brand_group, acc.all_ranges)

\* the rows of one brand, in their order
BrandGroup(df, brand_name) ==
    SelectSeq(df, LAMBDA row : row.brand = brand_name)

\* the groups of groupby('BRAND', sort=False), in the order their first rows
\* appear
RECURSIVE RenderBrands(_, _, _, _)
RenderBrands(acc, brands, df, maps) ==
    IF brands = <<>> THEN acc
    ELSE RenderBrands(
             RenderBrand(acc, Head(brands), BrandGroup(df, Head(brands)), maps),
             Tail(brands), df, maps)

\* lines 486-503: separator, grand total and footer after the last brand
EndSheet(acc, total_items, brands) ==
    acc.sheet \o
    <<[row_num |-> acc.current_row, kind |-> "separator"],
      [row_num |-> acc.current_row + 1, kind |-> "grand_total",
       label |-> <<"G","R","A","N","D"," ","T","O","T","A","L">>,
       ranges |-> acc.all_ranges,
       quantity |-> TotalCell("E", acc.all_ranges),
       sqft |-> TotalCell("F", acc.all_ranges),
       weight |-> TotalCell("G", acc.all_ranges)],
      [row_num |-> acc.current_row + 2, kind |-> "footer",
       total_items |-> total_items, brands |-> brands]>>

\* the brands of the rows, each once, as they first appear
BrandNames(df) == Unique([i \in 1..Len(df) |-> df[i].brand])

\* lines 413-503: the rows of the sheet from the first data row on
RenderSheet(df, maps) ==
    EndSheet(RenderBrands([sheet |-> <<>>, current_row |-> FirstDataRow,
                           all_ranges |-> <<>>],
                          BrandNames(df), df, maps),
             Len(df), Len(BrandNames(df)))

\* the documents a sheet is written for: those prepare_data returns from
SheetInit ==
    /\ wr_in \in {doc \in Documents : ~prepare_data(doc).raised}
    /\ wr_out = [done |-> FALSE, prepared |-> FALSE]

\* order_form, line 924: prepare_data returns the frame and the six dicts
PrepareForSheet ==
    /\ ~wr_out.prepared
    /\ wr_out' = [done |-> FALSE, prepared |-> TRUE,
                  out |-> prepare_data(wr_in)]
    /\ UNCHANGED <<wr_in, seqVars, normVars, sqftVars, prepVars, weightVars, appVars>>

\* the six dicts among the values prepare_data returned
MapsIn(out) ==
    [weight_map |-> out.weight_map, hdmr_map |-> out.hdmr_map,
     mdf_map |-> out.mdf_map, ply_map |-> out.ply_map,
     pvc_map |-> out.pvc_map, wpc_map |-> out.wpc_map]

\* order_form, line 931: write_report fills the sheet from them
WriteSheet ==
    /\ wr_out.prepared /\ ~wr_out.done
    /\ wr_out' = [done |-> TRUE, prepared |-> TRUE,
                  df |-> wr_out.out.df,
                  sheet |-> RenderSheet(wr_out.out.df, MapsIn(wr_out.out))]
    /\ UNCHANGED <<wr_in, seqVars, normVars, sqftVars, prepVars, weightVars, appVars>>

InitSheet ==
    /\ SheetInit
    /\ SeqInit
    /\ NormIdle /\ SqftIdle /\ PrepIdle /\ WeightIdle /\ AppIdle

SheetNext == PrepareForSheet \/ WriteSheet

SpecSheet == InitSheet /\ [][SheetNext]_vars

-----------------------------------------------------------------------------
(* The area formula of a data row, as the spreadsheet evaluates it *)

\* the #VALUE! error of the spreadsheet
ValueError == [error |-> TRUE, num |-> 0, den |-> 1]

\* a text operand of *: the spreadsheet reads it as a number, or the
\* product is #VALUE!. The texts LEFT and RIGHT cut from the sizes of the
\* model hold digits and the separator only; a run of digits is a number,
\* a text with the separator in it is none.
TextToNumber(text) ==
    IF text # <<>> /\ AllDigits(text)
    THEN [error |-> FALSE, num |-> ToInt(text), den |-> 1]
    ELSE ValueError

\* LEFT(text, n) and RIGHT(text, n): at most n characters from either end
LEFT(text, n) == SubSeq(text, 1, IF n < Len(text) THEN n ELSE Len(text))
RIGHT(text, n) ==
    SubSeq(text, IF n < Len(text) THEN Len(text) - n + 1 ELSE 1, Len(text))

\* x * y * qty / den of the spreadsheet: an error operand makes an error
Product(x, y, qty, den) ==
    IF x.error \/ y.error THEN ValueError
    ELSE [error |-> FALSE, num |-> x.num * y.num * qty, den |-> den]

\* the value column F shows for a data row whose cell B holds size_text and
\* whose cell E holds qty: the text "0", or
\* LET(a, LEFT(B,1)*RIGHT(B,1)*E, b, LEFT(B,2)*RIGHT(B,2)/144*E,
\*     IF(LEN(B)<4, a, b)); IF gives the branch it selects, an error in the
\* other one is not shown
FormulaValue(formula, size_text, qty) ==
    IF formula.kind = "zero" THEN [error |-> FALSE, num |-> 0, den |-> 1]
    ELSE IF Len(size_text) < 4
    THEN Product(TextToNumber(LEFT(size_text, 1)),
                 TextToNumber(RIGHT(size_text, 1)), qty, 1)
    ELSE Product(TextToNumber(LEFT(size_text, 2)),
                 TextToNumber(RIGHT(size_text, 2)), qty, 144)

\* the dimensions of the sizes the formula is evaluated on: one, two and
\* three digits, on both sides of 15
FormulaDims == {4, 8, 9, 10, 12, 15, 16, 48, 72, 96, 100, 120, 144}

FormulaProducts ==
    { <<"l","a","m","i","n","a","t","e">>, <<"L","i","n","e","r">>,
      <<"h","d","m","r">>, <<"P","L","Y">>, <<"d","o","o","r">> }

\* a row of the prepared frame (the columns the formula reads) and the
\* sheet row it is written to
FormulaInit ==
    /\ sf_in \in {[product |-> pr, size |-> ToStr(l) \o <<sep>> \o ToStr(b),
                   l |-> l, b |-> b, quantity |-> q, row_num |-> FirstDataRow] :
                     pr \in FormulaProducts, l \in FormulaDims,
                     b \in FormulaDims, sep \in {"x", "X"}, q \in 1..MaxQty}
    /\ sf_out = [done |-> FALSE]

\* lines 434-440: the cells B, E and F of the row are written, and the
\* spreadsheet shows the value of F; calculate_sqft is what prepare_data
\* stored in the row's SQFT column (line 330)
WriteSqftCell ==
    /\ ~sf_out.done
    /\ sf_out' = [done |-> TRUE,
                  formula |-> get_sqft_formula(sf_in, sf_in.row_num),
                  shown |-> FormulaValue(get_sqft_formula(sf_in, sf_in.row_num),
                                         sf_in.size, sf_in.quantity),
                  sqft |-> calculate_sqft(Str(sf_in.size), sf_in.quantity)]
    /\ UNCHANGED <<sf_in, seqVars, fnVars, formatVars, webVars>>

InitFormula ==
    /\ FormulaInit
    /\ SeqInit
    /\ NormIdle /\ SqftIdle /\ PrepIdle /\ WeightIdle /\ SheetIdle
    /\ FormatIdle /\ WebIdle

SpecFormula == InitFormula /\ [][WriteSqftCell]_vars

-----------------------------------------------------------------------------
(* The identifier the sequencer builds of a counter value *)

\* the values of new_counter an identifier is built of: the column counter
\* is an INTEGER that every call of a month increments, without a limit
CounterValues ==
    {1, 9, 10, 99, 100, 999, 1000, 9999, 10000, 99998, 99999,
     100000, 100001, 123456, 999999, 1000000}

FormatInit ==
    /\ fo_in \in {[new_counter |-> n, at |-> [y |-> y, m |-> mo]] :
                     n \in CounterValues, mo \in 1..12,
                     y \in FirstYear..(FirstYear + 1)}
    /\ fo_out = [done |-> FALSE]

\* lines 90 and 105-107: the month key and the identifier returned
FormatId ==
    /\ ~fo_out.done
    /\ fo_out' = [done |-> TRUE,
                  id |-> FormatOrderId(MonthYear(fo_in.at), fo_in.new_counter)]
    /\ UNCHANGED <<fo_in, seqVars, fnVars, formulaVars, webVars>>

InitFormat ==
    /\ FormatInit
    /\ SeqInit
    /\ NormIdle /\ SqftIdle /\ PrepIdle /\ WeightIdle /\ SheetIdle
    /\ FormulaIdle /\ WebIdle

SpecFormat == InitFormat /\ [][FormatId]_vars

-----------------------------------------------------------------------------
(* The web application: sessions, report routes and manually issued IDs *)

\* number of clients (browsers), each with its own session cookie
NumClients == 2

Clients == 1..NumClients

\* USERS, loaded from the environment: username -> password. A password
\* stands for its hash: check_password_hash(USERS[uname], pwd) holds for
\* the password the hash was made of and for no other.
USERS == [u \in {"u1", "u2"} |-> IF u = "u1" THEN "pw1" ELSE "pw2"]

\* session.clear(): the cookie holds nothing
NoSession == [user |-> "none", temp_file_path |-> FALSE]

\* no POST /issue-order-id of the client is under way
NoRequest == [pc |-> "idle", order_id |-> <<>>, given_to_name |-> <<>>]

\* what a route answered last
Answer(route, c, user, answer, report_name, rows) ==
    [route |-> route, client |-> c, user |-> user, answer |-> answer,
     report_name |-> report_name, rows |-> rows]

\* validate_session and login_required let the request through: the cookie
\* names a user, the user is in ACTIVE_SESSIONS and in USERS
LoginRequired(c) ==
    /\ session[c].user # "none"
    /\ session[c].user \in ACTIVE_SESSIONS
    /\ session[c].user \in DOMAIN USERS

\* the request is turned away to the login page; a cookie that names a user
\* who is not in ACTIVE_SESSIONS is cleared
Redirected(c, route) ==
    /\ ~LoginRequired(c)
    /\ session' = [session EXCEPT ![c] = NoSession]
    /\ ACTIVE_SESSIONS' = IF session[c].user \in ACTIVE_SESSIONS
                          THEN ACTIVE_SESSIONS \ {session[c].user}
                          ELSE ACTIVE_SESSIONS
    /\ served' = Answer(route, c, "none", "login", 0, {})

\* mutant of LoginAnswer: a user who is in ACTIVE_SESSIONS is let in again
LoginAnswer_NoActiveCheck(uname, pwd) ==
    IF uname = "" \/ pwd = "" THEN "missing"
    ELSE IF uname \in DOMAIN USERS /\ USERS[uname] = pwd THEN "home"
    ELSE "invalid"

\* lines 657-678: what POST /login decides
LoginAnswer(uname, pwd) ==
    IF uname = "" \/ pwd = "" THEN "missing"
    ELSE IF uname \in DOMAIN USERS /\ USERS[uname] = pwd
    THEN IF uname \in ACTIVE_SESSIONS THEN "already" ELSE "home"
    ELSE "invalid"

\* POST /login (validate_session skips the endpoint)
Login(c) ==
    \E uname \in DOMAIN USERS \cup {"", "nobody"}, pwd \in {"", "pw1", "pw2"} :
        /\ IF LoginAnswer(uname, pwd) = "home"
           THEN /\ session' = [session EXCEPT ![c] =
                                  [user |-> uname, temp_file_path |-> FALSE]]
                /\ ACTIVE_SESSIONS' = ACTIVE_SESSIONS \cup {uname}
           ELSE UNCHANGED <<session, ACTIVE_SESSIONS>>
        /\ served' = Answer("login", c, uname, LoginAnswer(uname, pwd), 0, {})
        /\ UNCHANGED <<issued_order_ids, request, seqVars, fnVars, formulaVars, formatVars>>

\* GET /logout
Logout(c) ==
    /\ ACTIVE_SESSIONS' = ACTIVE_SESSIONS \ {session[c].user}
    /\ session' = [session EXCEPT ![c] = NoSession]
    /\ served' = Answer("logout", c, session[c].user, "login", 0, {})
    /\ UNCHANGED <<issued_order_ids, request, seqVars, fnVars, formulaVars, formatVars>>

\* PERMANENT_SESSION_LIFETIME has passed since the client's last request:
\* the cookie is no longer sent, or no longer accepted. No code of the
\* server runs.
Expire(c) ==
    /\ session[c].user # "none"
    /\ session' = [session EXCEPT ![c] = NoSession]
    /\ UNCHANGED <<ACTIVE_SESSIONS, served, issued_order_ids, request, seqVars, fnVars,
                   formulaVars, formatVars>>

\* POST / with a spreadsheet: the file is stored and named in the session
Upload(c) ==
    /\ IF LoginRequired(c)
       THEN /\ session' = [session EXCEPT ![c].temp_file_path = TRUE]
            /\ served' = Answer("home", c, session[c].user, "form", 0, {})
            /\ UNCHANGED ACTIVE_SESSIONS
       ELSE Redirected(c, "home")
    /\ UNCHANGED <<issued_order_ids, request, seqVars, fnVars, formulaVars, formatVars>>

\* the row of the month in the table counters, as fetchone() gives it
CounterRow(month_year) ==
    IF month_year \in DOMAIN counters THEN <<counters[month_year]>> ELSE <<>>

\* the position of a new row among the rows of sale_orders and
\* issued_order_ids in the order of their time stamps (generated_at,
\* given_at): rows are only added, and no two in the same second
Stamp == Len(sale_orders) + Len(issued_order_ids) + 1

\* write_report as one step of a request that is served alone: the
\* identifier (or "ERROR-ID"), the save, the log record
WriteReport(c, outcome) ==
    LET month_year == MonthYear(clock)
        new_counter == NewCounter(CounterRow(month_year))
        unique_id == IF outcome = "store_failed" THEN ERROR_ID
                     ELSE FormatOrderId(month_year, new_counter)
        report_name == ncalls + 1
    IN  /\ ncalls' = ncalls + 1
        /\ counters' = IF outcome = "store_failed" THEN counters
                       ELSE [k \in DOMAIN counters \cup {month_year} |->
                                IF k = month_year THEN new_counter ELSE counters[k]]
        /\ reports' = IF outcome = "save_failed" THEN reports
                      ELSE reports \cup {report_name}
        /\ sale_orders' = IF outcome = "save_failed" THEN sale_orders
                          ELSE Append(sale_orders,
                                      [username |-> session[c].user,
                                       order_id |-> unique_id,
                                       report_name |-> report_name,
                                       generated_at |-> Stamp])
        /\ session' = IF outcome = "save_failed" THEN session
                      ELSE [session EXCEPT ![c].temp_file_path = FALSE]
        /\ served' = IF outcome = "save_failed"
                     THEN Answer("form", c, session[c].user, "failed", 0, {})
                     ELSE Answer("form", c, session[c].user, "download",
                                 report_name, {})

\* number of reports requested in one behaviour of the web application
MaxReports == 2

\* POST /form
OrderForm(c) ==
    /\ ncalls < MaxReports
    /\ IF ~LoginRequired(c)
       THEN /\ Redirected(c, "form")
            /\ UNCHANGED <<counters, sale_orders, reports, ncalls>>
       ELSE IF ~session[c].temp_file_path
       THEN /\ served' = Answer("form", c, session[c].user, "home", 0, {})
            /\ UNCHANGED <<session, ACTIVE_SESSIONS, counters, sale_orders, reports, ncalls>>
       ELSE /\ \E outcome \in {"ok", "store_failed", "save_failed"} :
                   WriteReport(c, outcome)
            /\ UNCHANGED ACTIVE_SESSIONS
    /\ UNCHANGED <<clock, pc, loc, returned, issued_order_ids, request, fnVars,
                   formulaVars, formatVars>>

\* GET /download/<report_name>
DownloadReport(c) ==
    \E report_name \in 1..MaxReports :
        /\ IF ~LoginRequired(c) THEN Redirected(c, "download")
           ELSE /\ served' = IF report_name \in reports
                             THEN Answer("download", c, session[c].user, "file",
                                         report_name, {})
                             ELSE Answer("download", c, session[c].user, "home",
                                         report_name, {})
                /\ UNCHANGED <<session, ACTIVE_SESSIONS>>
        /\ UNCHANGED <<issued_order_ids, request, seqVars, fnVars, formulaVars, formatVars>>

\* GET /orders: the records of sale_orders with the session's username
Orders(c) ==
    /\ IF ~LoginRequired(c) THEN Redirected(c, "orders")
       ELSE /\ served' = Answer("orders", c, session[c].user, "list", 0,
                                {sale_orders[i].report_name :
                                    i \in {j \in 1..Len(sale_orders) :
                                              sale_orders[j].username = session[c].user}})
            /\ UNCHANGED <<session, ACTIVE_SESSIONS>>
    /\ UNCHANGED <<issued_order_ids, request, seqVars, fnVars, formulaVars, formatVars>>

\* the server has started: nobody is logged in, the tables are empty
WebInit ==
    /\ ACTIVE_SESSIONS = {}
    /\ session = [c \in Clients |-> NoSession]
    /\ issued_order_ids = <<>>
    /\ request = [c \in Clients |-> NoRequest]
    /\ served = Answer("none", 0, "none", "none", 0, {})

InitLogin ==
    /\ WebInit
    /\ SeqInit
    /\ NormIdle /\ SqftIdle /\ PrepIdle /\ WeightIdle /\ SheetIdle
    /\ FormulaIdle /\ FormatIdle

LoginNext ==
    \E c \in Clients :
        \/ Login(c)
        \/ Logout(c)
        \/ Expire(c)
        \/ Upload(c)
        \/ OrderForm(c)
        \/ DownloadReport(c)
        \/ Orders(c)

\* logins, logouts, expiring sessions and the report routes
SpecLogin == InitLogin /\ [][LoginNext]_vars

\* logins, logouts, expiring sessions and requests to protected routes
SessionNext ==
    \E c \in Clients :
        \/ Login(c)
        \/ Logout(c)
        \/ Expire(c)
        \/ Upload(c)
        \/ Orders(c)

SpecSession == InitLogin /\ [][SessionNext]_vars

\* the order IDs typed into the form of /issue-order-id: nothing, a blank,
\* the first identifiers of the month, one of them with blanks around it
TypedOrderIds ==
    { <<>>, <<" ">> } \cup
    { FormatOrderId(MonthYear(clock), n) : n \in 1..2 } \cup
    { <<" ">> \o FormatOrderId(MonthYear(clock), 1) \o <<" ">> }

TypedNames == { <<>>, <<"R">> }

\* SELECT * FROM issued_order_ids WHERE order_id = ?
Existing(order_id) ==
    {i \in 1..Len(issued_order_ids) : issued_order_ids[i].order_id = order_id}

\* mutant of UniqueViolation: the column order_id has no UNIQUE constraint
UniqueViolation_NoConstraint(order_id) == FALSE

\* line 622, order_id TEXT UNIQUE: the INSERT of a value the column holds
\* raises sqlite3.IntegrityError
UniqueViolation(order_id) == Existing(order_id) # {}

\* POST /issue-order-id up to the SELECT (lines 1213-1230): the fields are
\* read and stripped, a request without order ID or recipient is turned
\* away, and so is one whose order ID the table holds
IssueCheck(c) ==
    /\ request[c].pc = "idle"
    /\ \E typed_id \in TypedOrderIds, typed_name \in TypedNames :
        LET order_id == Strip(typed_id)
            given_to_name == Strip(typed_name)
        IN  IF ~LoginRequired(c)
            THEN /\ Redirected(c, "issue")
                 /\ UNCHANGED request
            ELSE /\ UNCHANGED <<session, ACTIVE_SESSIONS>>
                 /\ IF order_id = <<>> \/ given_to_name = <<>>
                    THEN /\ served' = Answer("issue", c, session[c].user, "missing", 0, {})
                         /\ UNCHANGED request
                    ELSE IF Existing(order_id) # {}
                    THEN /\ served' = Answer("issue", c, session[c].user, "already", 0, {})
                         /\ UNCHANGED request
                    ELSE /\ request' = [request EXCEPT ![c] =
                                           [pc |-> "insert", order_id |-> order_id,
                                            given_to_name |-> given_to_name]]
                         /\ UNCHANGED served
    /\ UNCHANGED <<issued_order_ids, seqVars, fnVars, formulaVars, formatVars>>

\* the INSERT and the commit (lines 1233-1241); an exception is caught at
\* line 1243 and answered with an error message
IssueInsert(c) ==
    /\ request[c].pc = "insert"
    /\ IF UniqueViolation(request[c].order_id)
       THEN /\ served' = Answer("issue", c, session[c].user, "error", 0, {})
            /\ UNCHANGED issued_order_ids
       ELSE /\ issued_order_ids' =
                   Append(issued_order_ids,
                          [order_id |-> request[c].order_id,
                           given_to_name |-> request[c].given_to_name,
                           given_by_user |-> session[c].user,
                           given_at |-> Stamp])
            /\ served' = Answer("issue", c, session[c].user, "issued", 0, {})
    /\ request' = [request EXCEPT ![c] = NoRequest]
    /\ UNCHANGED <<session, ACTIVE_SESSIONS, seqVars, fnVars, formulaVars, formatVars>>

\* the rows of both tables as (order_id, ts)
AllIds ==
    [i \in 1..Len(sale_orders) |->
        [order_id |-> sale_orders[i].order_id, ts |-> sale_orders[i].generated_at]]
    \o
    [i \in 1..Len(issued_order_ids) |->
        [order_id |-> issued_order_ids[i].order_id, ts |-> issued_order_ids[i].given_at]]

\* lines 628-636: the order_id of the row with the latest time stamp of
\* both tables, or None, here <<>>
get_latest_order_id_global ==
    IF AllIds = <<>> THEN <<>>
    ELSE LET latest == CHOOSE i \in 1..Len(AllIds) :
                           \A j \in 1..Len(AllIds) : AllIds[j].ts <= AllIds[i].ts
         IN  AllIds[latest].order_id

\* lines 638-651
get_next_suggested_order_id ==
    LET last_id == get_latest_order_id_global
        current_month_year == MonthYear(clock)
        first == current_month_year \o <<"-">> \o Zfill(ToStr(1), 5)
        parts == SplitOn(last_id, {"-"})
    IN  IF last_id = <<>> THEN first
        ELSE IF Len(parts) # 3 THEN first
        ELSE IF parts[1] \o <<"-">> \o parts[2] # current_month_year
        THEN current_month_year \o <<"-">> \o Zfill(ToStr(1), 5)
        ELSE IF parts[3] = <<>> \/ ~AllDigits(parts[3]) THEN first
        ELSE current_month_year \o <<"-">> \o Zfill(ToStr(ToInt(parts[3]) + 1), 5)

\* GET /last-id: the latest and the suggested identifier are shown
LastId(c) ==
    /\ IF ~LoginRequired(c) THEN Redirected(c, "last-id")
       ELSE /\ served' = [Answer("last-id", c, session[c].user, "page", 0, {})
                             EXCEPT !.rows = {get_next_suggested_order_id}]
            /\ UNCHANGED <<session, ACTIVE_SESSIONS>>
    /\ UNCHANGED <<issued_order_ids, request, seqVars, fnVars, formulaVars, formatVars>>

\* the user a client is logged in as when the issuing starts
UserOf(c) == IF c = 1 THEN "u1" ELSE IF c = 2 THEN "u2" ELSE "none"

\* the users have logged in, each on a client of their own, and uploaded a
\* spreadsheet; the tables are empty
IssueInit ==
    /\ ACTIVE_SESSIONS = DOMAIN USERS
    /\ session = [c \in Clients |->
                     IF UserOf(c) = "none" THEN NoSession
                     ELSE [user |-> UserOf(c), temp_file_path |-> TRUE]]
    /\ issued_order_ids = <<>>
    /\ request = [c \in Clients |-> NoRequest]
    /\ served = Answer("none", 0, "none", "none", 0, {})

InitIssue ==
    /\ IssueInit
    /\ SeqInit
    /\ NormIdle /\ SqftIdle /\ PrepIdle /\ WeightIdle /\ SheetIdle
    /\ FormulaIdle /\ FormatIdle

IssueNext ==
    \E c \in Clients :
        \/ IssueCheck(c)
        \/ IssueInsert(c)
        \/ LastId(c)

\* manual issuing and suggestions by logged-in users
SpecIssue == InitIssue /\ [][IssueNext]_vars

OfficeNext ==
    \E c \in Clients :
        \/ IssueCheck(c)
        \/ IssueInsert(c)
        \/ LastId(c)
        \/ Upload(c)
        \/ OrderForm(c)

\* manual issuing, suggestions and report generation by logged-in users
SpecOffice == InitIssue /\ [][OfficeNext]_vars

-----------------------------------------------------------------------------
(* Properties of the sequencer *)

\* the i-th call of generate_unique_order_id returned an identifier
Succeeded(i) == returned[i].id # ERROR_ID

\* the pieces of an identifier between its dashes
IdParts(id) == SplitOn(id, {"-"})

\* the successful calls up to the i-th that read the same calendar month
SameMonthUpTo(i) ==
    {j \in 1..i : Succeeded(j) /\ returned[j].at = returned[i].at}

\* C1: with calls made one after the other, the k-th successful call of a
\* calendar month returns the suffix k (1, 2, 3, ... from 1), so the first
\* call after a month change returns 1, and the prefix is the month and the
\* two-digit year the call read.
C1_SerialSuffixes ==
    \A i \in 1..Len(returned) :
        Succeeded(i) =>
            LET parts == IdParts(returned[i].id)
            IN  /\ Len(parts) = 3
                /\ ToInt(parts[3]) = Cardinality(SameMonthUpTo(i))
                /\ ToInt(parts[1]) = returned[i].at.m
                /\ ToInt(parts[2]) = returned[i].at.y % 100

\* C1 witness: two identifiers issued in one month and then one in a later
\* month, with suffixes 1, 2 and 1.
C1_Witness ==
    /\ Len(returned) = 3
    /\ \A i \in 1..3 : Succeeded(i)
    /\ returned[1].at = returned[2].at
    /\ returned[3].at # returned[2].at
    /\ ToInt(IdParts(returned[1].id)[3]) = 1
    /\ ToInt(IdParts(returned[2].id)[3]) = 2
    /\ ToInt(IdParts(returned[3].id)[3]) = 1

\* C2: no two calls of one month that return an identifier return the same
\* counter value, whatever the interleaving.
C2_NoDuplicateIds ==
    \A i, j \in 1..Len(returned) :
        (i # j /\ Succeeded(i) /\ Succeeded(j) /\ returned[i].at = returned[j].at)
            => returned[i].id # returned[j].id

\* the number of calls that returned an identifier with the key month_year
CompletedIn(month_year) ==
    Cardinality({i \in 1..Len(returned) :
                    /\ Succeeded(i)
                    /\ SubSeq(returned[i].id, 1, 5) = month_year})

\* C3: after n calls of a month completed without error the stored counter
\* of the month is n: no increment is lost.
C3_CounterCountsCalls ==
    /\ \A k \in DOMAIN counters : counters[k] = CompletedIn(k)
    /\ \A i \in 1..Len(returned) :
           Succeeded(i) => SubSeq(returned[i].id, 1, 5) \in DOMAIN counters

\* C4: a store failure in generate_unique_order_id makes it return
\* "ERROR-ID" to write_report and never ends write_report with an exception (only a failed
\* save does); a store failure in log_order_to_database is swallowed; a
\* write_report that completed has saved its workbook.
C4_StoreFailureSwallowed ==
    \A p \in Procs :
        /\ loc[p].store_failed =>
               /\ ~InGenerate(p)
               /\ Active(p) => loc[p].unique_id = ERROR_ID
               /\ pc[p] = "raised" => loc[p].save_failed
        /\ loc[p].log_failed => pc[p] = "done"
        /\ pc[p] = "done" => OutputFile(p) \in reports

\* C4 witness: a write_report whose identifier could not be generated and
\* whose log entry could not be written has completed with its workbook
\* saved.
C4_Witness ==
    \E p \in Procs :
        /\ pc[p] = "done"
        /\ loc[p].store_failed /\ loc[p].log_failed
        /\ OutputFile(p) \in reports

-----------------------------------------------------------------------------
(* Properties of the category normalizer *)

\* the call of normalize_category has returned, for a raw category that is
\* not missing
NormReturned == nc_out.done /\ nc_in.raw # NaN

HasTex == Contains(TEX, Upper(nc_in.raw))

InAllowList == Lower(nc_in.product) \in AllowList

\* the rows of the table that are no wildcard and whose keyword(s) all occur
\* in the upper-case raw category
MatchingRows ==
    {i \in 1..Len(nc_in.cat_map) :
        LET keyword == Upper(nc_in.cat_map[i].keyword)
            parts == SplitOn(keyword, {"+"})
        IN  /\ keyword # WILDCARD
            /\ IF Len(parts) > 1
               THEN \A k \in 1..Len(parts) :
                        Contains(Strip(parts[k]), Upper(nc_in.raw))
               ELSE Contains(keyword, Upper(nc_in.raw))}

WildcardRows ==
    {i \in 1..Len(nc_in.cat_map) : nc_in.cat_map[i].keyword = WILDCARD}

First(S) == CHOOSE i \in S : \A j \in S : i <= j

\* C5: a raw category whose upper-case text contains "TEX" gives
\* "TEX CATEGORY", for every table and every product type.
C5_TexAlwaysTexCategory ==
    (NormReturned /\ HasTex) => nc_out.value = TEX_CATEGORY

\* C5 witness: a lower-case "tex" inside a category of a product outside
\* the allow-list, with a table that has a rule for it, gave "TEX CATEGORY".
C5_Witness ==
    /\ NormReturned
    /\ nc_in.raw = <<"t","e","x","t">>
    /\ nc_in.product = <<"d","o","o","r">>
    /\ nc_in.cat_map = <<RuleTex, RuleStar>>
    /\ nc_out.value = TEX_CATEGORY

\* C6: for laminate/liner (and a raw category the TEX rule does not take),
\* the result is the target of the first row in table order that is no
\* wildcard and matches; the wildcard target is the result only when no such
\* row matches, wherever the wildcard row stands. With the table
\* [("A+B","X"), ("C","Y"), ("*","Z")]: "A B" gives X, "C" gives Y, "Q"
\* gives Z.
C6_FirstMatchThenWildcard ==
    (NormReturned /\ ~HasTex /\ InAllowList) =>
        /\ MatchingRows # {} =>
               nc_out.value = nc_in.cat_map[First(MatchingRows)].target
        /\ (MatchingRows = {} /\ WildcardRows # {}) =>
               nc_out.value = nc_in.cat_map[First(WildcardRows)].target
        /\ (\E i \in WildcardRows :
                nc_out.value = nc_in.cat_map[i].target
                /\ \A j \in 1..Len(nc_in.cat_map) :
                       nc_in.cat_map[j].target = nc_out.value => j \in WildcardRows)
               => MatchingRows = {}
        /\ nc_in.cat_map = ExampleMap =>
               /\ nc_in.raw = <<"A"," ","B">> => nc_out.value = <<"X">>
               /\ nc_in.raw = <<"C">> => nc_out.value = <<"Y">>
               /\ nc_in.raw = <<"Q">> => nc_out.value = <<"Z">>

\* C6 witness: a wildcard row stands first in the table, a later row
\* matches, and the later row's target is the result.
C6_Witness ==
    /\ NormReturned /\ ~HasTex /\ InAllowList
    /\ nc_in.cat_map = <<RuleStar, RuleC, RuleAB>>
    /\ nc_in.raw = <<"b","a","c">>
    /\ nc_out.value = <<"Y">>

\* C7: for laminate/liner, with no matching row and no wildcard row, the
\* result is the raw category as it was given, letter case included.
C7_FallbackIsRawUnchanged ==
    (NormReturned /\ ~HasTex /\ InAllowList
        /\ MatchingRows = {} /\ WildcardRows = {})
        => nc_out.value = nc_in.raw

\* C8: for a product type outside the allow-list and a raw category without
\* "TEX", the result is the raw category unchanged whatever the table holds.
C8_OtherProductsPassThrough ==
    (NormReturned /\ ~HasTex /\ ~InAllowList) => nc_out.value = nc_in.raw

\* C8 witness: a product outside the allow-list, a table with a row that
\* matches the category and a wildcard row, and the category came back as
\* given.
C8_Witness ==
    /\ NormReturned
    /\ nc_in.product = <<"d","o","o","r">>
    /\ nc_in.raw = <<"a"," ","b">>
    /\ nc_in.cat_map = <<RuleAB, RuleStar>>
    /\ nc_out.value = <<"a"," ","b">>

-----------------------------------------------------------------------------
(* Properties of the area calculator *)

\* two fractions are the same number
SameNumber(x, y) == x.num * y.den = y.num * x.den

\* C10: for a size "LxB" (separator x or X) with numbers L and B and a
\* quantity q, calculate_sqft gives L*B*q when L <= 15 and B <= 15, and
\* (L*B/144)*q when L or B is above 15. (L and B are held in tenths.)
C10_AreaRule ==
    (sq_out.done /\ sq_in.kind = "LxB") =>
        IF sq_in.l <= 150 /\ sq_in.b <= 150
        THEN SameNumber(sq_out.value,
                        [num |-> sq_in.l * sq_in.b * sq_in.qty, den |-> 100])
        ELSE SameNumber(sq_out.value,
                        [num |-> sq_in.l * sq_in.b * sq_in.qty, den |-> 14400])

\* C10 witness: "8X15.1" with quantity 2: one dimension is above 15, and the
\* area is 8 * 15.1 / 144 * 2.
C10_Witness ==
    /\ sq_out.done
    /\ sq_in.size = Str(<<"8","X","1","5",".","1">>)
    /\ sq_in.qty = 2
    /\ SameNumber(sq_out.value, [num |-> 80 * 151 * 2, den |-> 14400])
    /\ sq_out.value.num # 0

\* C11: calculate_sqft returns 0 for every malformed size (a value that is
\* no string, a string without x/X, a string that splits into other than two
\* parts, a part that is no number or is empty), whatever the quantity.
C11_MalformedSizeGivesZero ==
    (sq_out.done /\ sq_in.kind = "malformed") => sq_out.value = Zero

\* C11 witness: the three-part size "8x4x2" with quantity 2 was answered
\* with 0.
C11_Witness ==
    /\ sq_out.done
    /\ sq_in.kind = "malformed"
    /\ sq_in.size = Str(<<"8","x","4","x","2">>)
    /\ sq_in.qty = 2
    /\ sq_out.value = Zero

-----------------------------------------------------------------------------
(* Properties of the weight formula *)

\* the thickness, in tenths of a millimetre, each category of the model
\* starts with: digits, an optional fraction, then "mm" in any case
CategoryTenths ==
    { <<(<<"1","8","m","m">>), 180>>,
      <<(<<"1","8","M","M"," ","P","l","a","i","n">>), 180>>,
      <<(<<"1","2","m","m">>), 120>>,
      <<(<<"6",".","5","m","m">>), 65>>,
      <<(<<"1","8",".","m","m">>), 180>>,
      <<(<<"1","8",".","0","m","m">>), 180>>,
      <<(<<"2","5","m","m">>), 250>> }

\* the items of a thickness dict under the thickness the row's category
\* starts with
FoundIn(map) ==
    {i \in 1..Len(map) :
        \E c \in CategoryTenths :
            /\ c[1] = wt_in.row.category
            /\ map[i].key.num * 10 = c[2] * map[i].key.den}

\* the items of the weight dict under the row's (product, brand), compared
\* without regard to case
WeightItems ==
    {i \in 1..Len(wt_in.maps.weight_map) :
        wt_in.maps.weight_map[i].key =
            <<Lower(wt_in.row.product), Upper(wt_in.row.brand)>>}

\* the text "=<col><row_num>*<coefficient>"
Times(col, coefficient) ==
    <<"=", col>> \o ToStr(wt_in.row_num) \o <<"*">> \o coefficient

\* C12: get_weight_formula follows one rule per row. door and board: a fixed
\* coefficient (1.5, 1) times the area cell F. hdmr, mdf and wpc board with
\* the thickness found in their table: the coefficient times the quantity
\* cell E. ply and pvc door with the thickness found: the coefficient times
\* F. laminate and liner with (product, brand) in the weight table: the
\* coefficient times E. Every other case: "0".
C12_WeightRule ==
    wt_out.done =>
        LET product == Lower(wt_in.row.product)
            maps == wt_in.maps
            out == wt_out.value
            OnFound(map, col) ==
                IF FoundIn(map) # {}
                THEN out = Times(col, map[Last(FoundIn(map))].value)
                ELSE out = <<"0">>
        IN  CASE product = <<"d","o","o","r">> -> out = Times("F", <<"1",".","5">>)
              [] product = <<"b","o","a","r","d">> -> out = Times("F", <<"1">>)
              [] product = HDMR -> OnFound(maps.hdmr_map, "E")
              [] product = MDF -> OnFound(maps.mdf_map, "E")
              [] product = WPC_BOARD -> OnFound(maps.wpc_map, "E")
              [] product = PLY -> OnFound(maps.ply_map, "F")
              [] product = PVC_DOOR -> OnFound(maps.pvc_map, "F")
              [] product \in {LAMINATE, LINER} ->
                    IF WeightItems # {}
                    THEN out = Times("E", maps.weight_map[Last(WeightItems)].value)
                    ELSE out = <<"0">>
              [] OTHER -> out = <<"0">>

\* C12 witness: a "Ply" row of category "18MM Plain" written to sheet row 105,
\* with 18 in the ply table, got "=F105*2".
C12_Witness ==
    /\ wt_out.done
    /\ wt_in.row.product = <<"P","l","y">>
    /\ wt_in.row.category = <<"1","8","M","M"," ","P","l","a","i","n">>
    /\ wt_in.row_num = 105
    /\ wt_out.value = <<"=","F","1","0","5","*","2">>

-----------------------------------------------------------------------------
(* Properties of the data loader *)

\* prepare_data returned its rows
PrepReturned == pd_out.done /\ ~pd_out.raised

\* the Master row a returned row was made from
SourceRow(row) == ReadSheets(pd_in).df[row.input_row]

\* C9: after prepare_data every row carries one normalized category that is
\* not null: a row with a null raw category carries "UNSPECIFIED", and the
\* category the normalizer gave a row is the one the row carries after the
\* category order was applied.
C9_EveryRowHasCategory ==
    PrepReturned =>
        /\ Len(pd_out.df) = Len(ReadSheets(pd_in).df)
        /\ \A i \in 1..Len(pd_out.df) :
               LET row == pd_out.df[i]
                   src == SourceRow(row)
                   given == normalize_category(RawOf(src.category),
                                               ReadSheets(pd_in).cat_map,
                                               src.product.text)
               IN  /\ row.category_norm # NaN
                   /\ src.category = NoCell => row.category_norm = UNSPECIFIED
                   /\ given # NaN => row.category_norm = given

\* C9 witness: a document with a row whose category is empty and a row whose
\* category no rule of the table names; the first carries "UNSPECIFIED", the
\* second its own category.
C9_Witness ==
    /\ PrepReturned
    /\ pd_in.missing = {}
    /\ pd_in.cat_map = <<RuleB>>
    /\ Len(pd_out.df) = 2
    /\ \E i, j \in 1..2 :
           /\ SourceRow(pd_out.df[i]).category = NoCell
           /\ pd_out.df[i].category_norm = UNSPECIFIED
           /\ pd_out.df[j].category_norm = SF

\* the normalized categories of the returned rows
PresentCategories == {pd_out.df[i].category_norm : i \in 1..Len(pd_out.df)}

\* C13: the category order puts SF and HG first whenever they are present in
\* the data; present categories {SF, Z, HG, TEX CATEGORY} with mapping order
\* [HG, Z] give [SF, HG, Z, TEX CATEGORY].
C13_Example ==
    (PrepReturned /\ pd_in = OrderExample) =>
        pd_out.cat_order = <<SF, HG, <<"Z">>, TEX_CATEGORY>>


\* the normalized categories of the rows of the document, as lines 301-302
\* compute them
NormalizedOfInput ==
    LET read == ReadSheets(pd_in)
        column == CategoryNorm(read.df, read.cat_map)
    IN  {column[i] : i \in 1..Len(column)}

\* C14: the category order computed by prepare_data holds each normalized
\* category present in the data exactly once: no category twice, none
\* missing, none that is not present.
C14_OrderHasEachOnce ==
    pd_out.done =>
        /\ \A i, j \in 1..Len(pd_out.cat_order) :
               i # j => pd_out.cat_order[i] # pd_out.cat_order[j]
        /\ {pd_out.cat_order[i] : i \in 1..Len(pd_out.cat_order)}
               = NormalizedOfInput

\* the sheets that only feed a lookup
AuxiliarySheets == SheetNames \ {"Master", "CategoryMap"}

\* C15: with a readable Master table and an auxiliary table absent,
\* prepare_data returns the Master table's own rows, and the lookups of the
\* tables that are present are built from them; only the lookup of the
\* absent table is empty.
C15_AbsentTableKeepsTheRest ==
    (pd_out.done /\ pd_in.missing # {} /\ pd_in.missing \subseteq AuxiliarySheets) =>
        /\ ~pd_out.raised
        /\ Len(pd_out.df) = Len(pd_in.master)
        /\ \A i \in 1..Len(pd_out.df) :
               \E k \in 1..Len(pd_in.master) :
                   /\ pd_out.df[i].product = Strip(pd_in.master[k].product.text)
                   /\ pd_out.df[i].brand = Strip(pd_in.master[k].brand.text)
                   /\ pd_out.df[i].size = Strip(pd_in.master[k].size.text)
        /\ pd_out.weight_map =
               IF "WeightMap" \in pd_in.missing THEN <<>>
               ELSE WeightMapOf(pd_in.weight_rows)
        /\ pd_out.hdmr_map =
               IF "HDMRWeightMap" \in pd_in.missing THEN <<>>
               ELSE ThicknessMapOf(pd_in.thickness_rows.hdmr)

\* C16: when the document has no readable Master table prepare_data fails
\* instead of returning rows.
C16_NoMasterFails ==
    (pd_out.done /\ "Master" \in pd_in.missing) => pd_out.raised

\* C17: after prepare_data no row has a negative quantity.
C17_QuantityNotNegative ==
    PrepReturned =>
        \A i \in 1..Len(pd_out.df) : pd_out.df[i].quantity >= 0

\* row a comes before row b in the order (brand, position of the category,
\* product, size), where a size that is a number comes before one that is
\* not, numbers are compared by value and the other sizes as text
SortsBefore(a, b) ==
    IF a.brand # b.brand THEN TextLess(a.brand, b.brand)
    ELSE IF a.cat_pos # b.cat_pos THEN a.cat_pos < b.cat_pos
    ELSE IF a.product # b.product THEN TextLess(a.product, b.product)
    ELSE IF a.size_numeric # <<>> /\ b.size_numeric # <<>>
         THEN a.size_numeric[1] < b.size_numeric[1]
    ELSE IF a.size_numeric # <<>> THEN TRUE
    ELSE IF b.size_numeric # <<>> THEN FALSE
    ELSE TextLess(a.size, b.size)

\* C18: the rows prepare_data returns are in ascending order of (brand,
\* category position, product, size), sizes that are no numbers being
\* ordered as text among themselves.
C18_RowsSorted ==
    PrepReturned =>
        \A i, j \in 1..Len(pd_out.df) :
            i < j => ~SortsBefore(pd_out.df[j], pd_out.df[i])

-----------------------------------------------------------------------------
(* Properties of the worksheet *)

\* the sheet row with the number n
RowAt(n) == wr_out.sheet[n - FirstDataRow + 1]

SheetRowNums == FirstDataRow..(FirstDataRow + Len(wr_out.sheet) - 1)

RowsOfKind(kind) == {n \in SheetRowNums : RowAt(n).kind = kind}

\* the (brand, category) group of a data row
GroupOf(n) == <<RowAt(n).brand, RowAt(n).category_norm>>

Groups == {GroupOf(n) : n \in RowsOfKind("data")}

Members(g) == {n \in RowsOfKind("data") : GroupOf(n) = g}

Least(S) == CHOOSE n \in S : \A k \in S : n <= k

Greatest(S) == CHOOSE n \in S : \A k \in S : k <= n

\* the rows from the first to the last member of a group
BlockOf(g) == [first |-> Least(Members(g)), last |-> Greatest(Members(g))]

\* the text "=SUM(<col><first>:<col><last>)"
SumOver(col, block) ==
    <<"=","S","U","M","(", col>> \o ToStr(block.first) \o <<":", col>>
        \o ToStr(block.last) \o <<")">>

\* C19: every row of the data is rendered once; the rows of a (brand,
\* category) group form one contiguous block, followed directly by one
\* subtotal row whose quantity, area and weight formulas sum from the first
\* to the last row of the block; there are as many subtotal rows as groups.
\* With two rows of brand B1 and category SF the subtotal sums exactly those
\* two quantity cells and the brand total refers to that one range.
C19_SubtotalCoversGroup ==
    wr_out.done =>
        /\ Cardinality(RowsOfKind("data")) = Len(wr_out.df)
        /\ {RowAt(n).input_row : n \in RowsOfKind("data")} = 1..Len(wr_out.df)
        /\ Cardinality(RowsOfKind("subtotal")) = Cardinality(Groups)
        /\ \A g \in Groups :
               LET block == BlockOf(g)
                   subtotal == RowAt(block.last + 1)
               IN  /\ Members(g) = block.first..block.last
                   /\ subtotal.kind = "subtotal"
                   /\ subtotal.label = g[2]
                   /\ subtotal.quantity = SumOver("E", block)
                   /\ subtotal.sqft = SumOver("F", block)
                   /\ subtotal.weight = SumOver("G", block)
        /\ wr_in = SizesExample =>
               /\ RowAt(13).quantity = <<"=","S","U","M","(","E","1","1",":","E","1","2",")">>
               /\ RowAt(15).kind = "brand_total"
               /\ RowAt(15).quantity = <<"=","S","U","M","(","E","1","1",":","E","1","2",")">>

\* C19 witness: the sheet of the two rows of brand B1 and category SF with
\* quantities 5 and 3: rows 11 and 12 hold them, row 13 the subtotal.
C19_Witness ==
    /\ wr_out.done
    /\ wr_in = SizesExample
    /\ RowAt(11).kind = "data" /\ RowAt(11).quantity = 5
    /\ RowAt(12).kind = "data" /\ RowAt(12).quantity = 3
    /\ RowAt(13).kind = "subtotal"
    /\ RowAt(13).quantity = <<"=","S","U","M","(","E","1","1",":","E","1","2",")">>

\* the ranges a total row sums, as a set
RangeSet(row) == {row.ranges[i] : i \in 1..Len(row.ranges)}

\* the text "=SUM(r1,r2,...)" of the ranges of a total row, or 0 without any
RECURSIVE Joined(_, _)
Joined(col, ranges) ==
    IF ranges = <<>> THEN <<>>
    ELSE <<col>> \o ToStr(ranges[1].first) \o <<":", col>> \o ToStr(ranges[1].last)
         \o (IF Len(ranges) > 1 THEN <<",">> ELSE <<>>)
         \o Joined(col, Tail(ranges))

\* C20: the ranges of a brand total are exactly the blocks of the brand's
\* category groups, the ranges of the grand total exactly the blocks of all
\* groups, each once; the ranges are pairwise disjoint, every data row lies
\* in exactly one of them and no other row lies in any.
C20_TotalsCoverEachRowOnce ==
    wr_out.done =>
        /\ Cardinality(RowsOfKind("grand_total")) = 1
        /\ Cardinality(RowsOfKind("brand_total"))
               = Cardinality({g[1] : g \in Groups})
        /\ \A n \in RowsOfKind("brand_total") :
               /\ RangeSet(RowAt(n)) = {BlockOf(g) : g \in {h \in Groups : h[1] = RowAt(n).label}}
               /\ Len(RowAt(n).ranges) = Cardinality(RangeSet(RowAt(n)))
               /\ RowAt(n).quantity =
                      <<"=","S","U","M","(">> \o Joined("E", RowAt(n).ranges) \o <<")">>
        /\ \A n \in RowsOfKind("grand_total") :
               LET ranges == RowAt(n).ranges
               IN  /\ RangeSet(RowAt(n)) = {BlockOf(g) : g \in Groups}
                   /\ Len(ranges) = Cardinality(Groups)
                   /\ RowAt(n).quantity =
                          <<"=","S","U","M","(">> \o Joined("E", ranges) \o <<")">>
                   /\ \A i, j \in 1..Len(ranges) :
                          i # j => \/ ranges[i].last < ranges[j].first
                                   \/ ranges[j].last < ranges[i].first
                   /\ \A k \in SheetRowNums :
                          LET holding == {i \in 1..Len(ranges) :
                                             ranges[i].first <= k /\ k <= ranges[i].last}
                          IN  Cardinality(holding) =
                                  IF RowAt(k).kind = "data" THEN 1 ELSE 0

\* C20 witness: a sheet with two brands, each with one group: the grand
\* total sums two ranges, each brand total one of them.
C20_Witness ==
    /\ wr_out.done
    /\ Cardinality(RowsOfKind("brand_total")) = 2
    /\ \E n \in RowsOfKind("grand_total") :
           /\ Len(RowAt(n).ranges) = 2
           /\ \A b \in RowsOfKind("brand_total") :
                  /\ Len(RowAt(b).ranges) = 1
                  /\ RowAt(b).ranges[1] \in RangeSet(RowAt(n))

-----------------------------------------------------------------------------
(* Properties of the area formula *)

\* C21: for every product and every valid "LxB" size with dimensions of
\* one, two or three digits and every quantity, the value the worksheet
\* shows for the formula of get_sqft_formula is the number
\* calculate_sqft(size, quantity).
C21_FormulaEqualsCalculator ==
    sf_out.done =>
        /\ ~sf_out.shown.error
        /\ sf_out.shown.num * sf_out.sqft.den = sf_out.sqft.num * sf_out.shown.den

-----------------------------------------------------------------------------
(* Properties of write_report's use of the sequencer and the order log *)

\* the log records written for the workbook file name
LoggedFor(name) == {i \in 1..Len(sale_orders) : sale_orders[i].report_name = name}

C23_FiveDigitSuffix ==
    fo_out.done =>
        LET parts == IdParts(fo_out.id)
        IN  /\ Len(parts) = 3
            /\ Len(parts[1]) = 2 /\ AllDigits(parts[1])
            /\ Len(parts[2]) = 2 /\ AllDigits(parts[2])
            /\ Len(parts[3]) = 5 /\ AllDigits(parts[3])

\* the log records whose order ID is made of the month key
LoggedIn(month_year) ==
    {i \in 1..Len(sale_orders) :
        /\ sale_orders[i].order_id # ERROR_ID
        /\ SubSeq(sale_orders[i].order_id, 1, 5) = month_year}

\* C24: when no call of write_report is under way, the stored counter of a
\* month is the number of log records of that month, and every identifier
\* the sequencer returned is the order ID of exactly one log record, also
\* after calls whose save or log write failed.
C24_CounterMatchesLog ==
    (\A p \in Procs : ~Active(p)) =>
        /\ \A k \in DOMAIN counters : counters[k] = Cardinality(LoggedIn(k))
        /\ \A i \in 1..Len(returned) :
               Succeeded(i) =>
                   Cardinality({j \in 1..Len(sale_orders) :
                                   sale_orders[j].order_id = returned[i].id}) = 1

-----------------------------------------------------------------------------
(* Properties of the manually issued IDs *)

\* C25: no order ID recorded in issued_order_ids is also the order ID of a
\* generated report.
C25_ManualIdsNotGenerated ==
    \A i \in 1..Len(issued_order_ids), j \in 1..Len(sale_orders) :
        issued_order_ids[i].order_id # sale_orders[j].order_id

\* the order IDs recorded in either table
RecordedIds ==
    {sale_orders[i].order_id : i \in 1..Len(sale_orders)} \cup
    {issued_order_ids[i].order_id : i \in 1..Len(issued_order_ids)}

\* C26: in every state of the two tables the suggested identifier is one of
\* the current month that neither table records.
C26_SuggestionIsFree ==
    /\ SubSeq(get_next_suggested_order_id, 1, 5) = MonthYear(clock)
    /\ get_next_suggested_order_id \notin RecordedIds

\* C27: issued_order_ids never holds two rows with the same order_id,
\* however the checks and the inserts of concurrent requests interleave; a
\* row is added only with an order ID and a recipient that are not empty
\* and an order ID the table did not hold; a request that is answered as
\* missing, already issued or failed leaves the table as it was, and an
\* insert of an order ID the table holds is answered so.
C27_IssuedIdsUnique ==
    /\ [](\A i, j \in 1..Len(issued_order_ids) :
              i # j => issued_order_ids[i].order_id # issued_order_ids[j].order_id)
    /\ [][ /\ (served' # served /\ served'.route = "issue"
                  /\ served'.answer \in {"missing", "already", "error"})
               => issued_order_ids' = issued_order_ids
           /\ issued_order_ids' # issued_order_ids =>
                  /\ Len(issued_order_ids') = Len(issued_order_ids) + 1
                  /\ SubSeq(issued_order_ids', 1, Len(issued_order_ids)) = issued_order_ids
                  /\ issued_order_ids'[Len(issued_order_ids')].order_id # <<>>
                  /\ issued_order_ids'[Len(issued_order_ids')].given_to_name # <<>>
                  /\ Existing(issued_order_ids'[Len(issued_order_ids')].order_id) = {}
           /\ \A c \in Clients :
                  (request[c].pc = "insert" /\ request'[c].pc = "idle"
                      /\ Existing(request[c].order_id) # {})
                  => (issued_order_ids' = issued_order_ids /\ served'.answer = "error")
         ]_vars

\* C27 witness: two requests for the same order ID both passed the check;
\* one inserted its row, the other met the UNIQUE constraint and was
\* answered with the error, and the table holds the ID once.
C27_Witness ==
    /\ served.route = "issue" /\ served.answer = "error"
    /\ Len(issued_order_ids) = 1
    /\ issued_order_ids[1].given_by_user # served.user
    /\ \A c \in Clients : request[c].pc = "idle"

-----------------------------------------------------------------------------
(* Properties of the sessions and the report routes *)

\* C28: at most one client's session is accepted for a username; a login
\* for a username that is in ACTIVE_SESSIONS is not let in and leaves
\* ACTIVE_SESSIONS and every session as they were.
C28_SingleLogin ==
    /\ [](\A c1, c2 \in Clients :
              (c1 # c2 /\ LoginRequired(c1) /\ LoginRequired(c2))
                  => session[c1].user # session[c2].user)
    /\ [][ (served' # served /\ served'.route = "login"
               /\ served'.user \in ACTIVE_SESSIONS)
               => /\ served'.answer # "home"
                  /\ UNCHANGED <<ACTIVE_SESSIONS, session>>
         ]_vars

\* C28 witness: a client is logged in as u1, and the login of another
\* client with u1's password was answered "already logged in".
C28_Witness ==
    /\ served.route = "login" /\ served.user = "u1" /\ served.answer = "already"
    /\ \E c \in Clients :
           /\ c # served.client
           /\ LoginRequired(c) /\ session[c].user = "u1"
    /\ session[served.client].user # "u1"

\* C29: a login with a user's valid credentials is turned away as
\* "already logged in" only while some client holds a session of that
\* user: the entry of ACTIVE_SESSIONS is released when the session ends, by
\* logout or by expiry.
C29_LoginSucceedsWhenFree ==
    [][ (served' # served /\ served'.route = "login"
            /\ served'.answer = "already")
            => \E c \in Clients : session[c].user = served'.user
      ]_vars

\* C30: a report is generated, listed or downloaded only for a session with
\* a user, and a file is served only to the user under whose username the
\* report is logged, as the orders list shows only the user's own records.
C30_OwnReportsOnly ==
    /\ served.answer \in {"download", "file", "list"} => served.user \in DOMAIN USERS
    /\ (served.route = "orders" /\ served.answer = "list") =>
           \A name \in served.rows :
               \E i \in 1..Len(sale_orders) :
                   /\ sale_orders[i].report_name = name
                   /\ sale_orders[i].username = served.user
    /\ (served.route = "download" /\ served.answer = "file") =>
           \E i \in 1..Len(sale_orders) :
               /\ sale_orders[i].report_name = served.report_name
               /\ sale_orders[i].username = served.user

=============================================================================
